---- MODULE Spec2Model ----
(***************************************************************************)
(* The streaming chunk translators of provider-conversions: three adapters *)
(* that turn one AI SDK stream chunk at a time, plus a mutable per-stream  *)
(* conversion context, into Anthropic events, an OpenAI chunk or a Google  *)
(* GenAI response snapshot.                                                *)
(*                                                                         *)
(* Text is modelled as a sequence of fragments (a free monoid under \o):   *)
(* concatenation, prefixes and equality of strings are those of the        *)
(* fragment sequences.  A JavaScript Map is a sequence of <<key, value>>   *)
(* pairs in insertion order.  An absent (undefined) field of a usage       *)
(* object is a missing field of the record.                                *)
(***************************************************************************)
EXTENDS Integers, Sequences, FiniteSets, TLC

VARIABLES
    adapter,    \* which translator this stream's context belongs to
    context,    \* the ChunkConversionContext, mutated by every call
    before,     \* the context as it was when the pending call was made
    chunk,      \* the chunk handed to the pending call, NoChunk between calls
    result,     \* the ChunkConversionResult of the pending call
    upstream,   \* the producer of the chunks: its discipline and what it has sent
    stream,     \* what the consumer has received so far from this context
    script,     \* a scripted upstream: the chunks it sends, in order (else empty)
    log,        \* under a script: the results of the calls made so far, in order
    heap,       \* two streams side by side: the Map objects allocated, by reference
    streams     \* two streams side by side: each one's context, script and results

vars ==
    <<adapter, context, before, chunk, result, upstream, stream, script, log,
      heap, streams>>

----------------------------------------------------------------------------
(* Bounds of the model *)

\* the longest accumulated tool-call argument text, in fragments
MaxArgLen == 3
\* the longest accumulated text, in fragments
MaxTextLen == 2
\* the number of content blocks adapter A closes
MaxBlocks == 1
\* the length of the scripted tool-call streams
ToolScriptLen == 5

----------------------------------------------------------------------------
(* JavaScript primitives *)

EmptyRecord == [f \in {} |-> 0]

Has(obj, field) == field \in DOMAIN obj

\* a ?? b on an optional field of obj
Coalesce(obj, field, fallback) == IF Has(obj, field) THEN obj[field] ELSE fallback

\* Map.prototype.has / get / set; set keeps the position of a key already present
MapHas(map, key) == \E i \in 1..Len(map) : map[i][1] = key

MapGet(map, key) == map[CHOOSE i \in 1..Len(map) : map[i][1] = key][2]

\* a variant that deletes a key already present and inserts it anew at the end
MapSet_reinserting(map, key, value) ==
    Append(SelectSeq(map, LAMBDA entry : entry[1] # key), <<key, value>>)

MapSet(map, key, value) ==
    IF MapHas(map, key)
    THEN [i \in 1..Len(map) |-> IF map[i][1] = key THEN <<key, value>> ELSE map[i]]
    ELSE Append(map, <<key, value>>)

MapKeys(map) == {map[i][1] : i \in 1..Len(map)}

IsPrefix(s, t) == Len(s) <= Len(t) /\ SubSeq(t, 1, Len(s)) = s

\* JSON text fragments
LB == "{"
RB == "}"
Comma == ","
MemberQuery == "\"query\":\"test\""
MemberTexts == {MemberQuery}

\* A JSON object is the sequence of its members in key order.
RECURSIVE JoinMembers(_)
JoinMembers(obj) ==
    IF Len(obj) = 0 THEN <<>>
    ELSE IF Len(obj) = 1 THEN <<obj[1]>>
    ELSE <<obj[1], Comma>> \o JoinMembers(Tail(obj))

\* JSON.stringify of an object: no whitespace, members in insertion order
JSONStringify(obj) == <<LB>> \o JoinMembers(obj) \o <<RB>>

\* the members of "m , m , ... m", or the failure marker <<Comma>>
RECURSIVE ParseMembers(_)
ParseMembers(text) ==
    IF Len(text) = 0 THEN <<Comma>>
    ELSE IF text[1] \notin MemberTexts THEN <<Comma>>
    ELSE IF Len(text) = 1 THEN <<text[1]>>
    ELSE IF text[2] # Comma THEN <<Comma>>
    ELSE LET rest == ParseMembers(SubSeq(text, 3, Len(text)))
         IN  IF rest = <<Comma>> THEN <<Comma>>
             ELSE IF \E i \in 1..Len(rest) : rest[i] = text[1] THEN rest
             ELSE <<text[1]>> \o rest

\* JSON.parse: [ok |-> TRUE, value |-> object] or [ok |-> FALSE] when it throws
JSONParse(text) ==
    IF Len(text) < 2 \/ text[1] # LB \/ text[Len(text)] # RB
    THEN [ok |-> FALSE]
    ELSE IF Len(text) = 2 THEN [ok |-> TRUE, value |-> <<>>]
    ELSE LET members == ParseMembers(SubSeq(text, 2, Len(text) - 1))
         IN  IF members = <<Comma>> THEN [ok |-> FALSE]
             ELSE [ok |-> TRUE, value |-> members]

\* a variant that reads the message field of an exception
String_message(value) ==
    IF value.kind = "Error" THEN value.message ELSE value.text

\* String(value) of an error value: Error.prototype.toString for an exception
\* (name, then ": " and the message unless the message is empty), the string itself
\* for a string
String(value) ==
    IF value.kind = "Error"
    THEN IF value.message = <<>> THEN <<value.name>>
         ELSE <<value.name, ": ">> \o value.message
    ELSE value.text

----------------------------------------------------------------------------
(* The chunks of the AI SDK stream that the environment hands over *)

ToolIds == {"call_1", "call_2"}
ToolNames == {"get_weather"}
SpanIds == {"t1"}
Texts == {<<"Hello">>, <<", ">>}
Deltas == {<<LB>>, <<MemberQuery, RB>>}
Inputs == {<<>>, <<MemberQuery>>}
FinishReasons == {"stop", "length", "tool-calls", "content-filter", "error", "other", "unknown"}
FullUsage == [inputTokens |-> 10, outputTokens |-> 5, totalTokens |-> 15]
Usages ==
    {EmptyRecord, [inputTokens |-> 10], [outputTokens |-> 5], [totalTokens |-> 7],
     FullUsage}
ErrorValues ==
    {[kind |-> "Error", name |-> "Error", message |-> <<"Something went wrong">>],
     [kind |-> "Error", name |-> "Error", message |-> <<>>],
     [kind |-> "string", text |-> <<"String error message">>]}

\* the kinds of TextStreamPart, and one kind outside the union
InertTypes == {"tool-result", "tool-error", "start-step", "abort", "source", "file", "raw"}
UnknownType == "tool-output-denied"

Chunks ==
    [type : {"start"} \cup InertTypes \cup {UnknownType}]
    \cup [type : {"text-start", "text-end", "reasoning-start", "reasoning-end"}, id : SpanIds]
    \cup [type : {"text-delta", "reasoning-delta"}, id : SpanIds, text : Texts]
    \cup [type : {"tool-input-start"}, id : ToolIds, toolName : ToolNames]
    \cup [type : {"tool-input-delta"}, id : ToolIds, delta : Deltas]
    \cup [type : {"tool-input-end"}, id : ToolIds]
    \cup [type : {"tool-call"}, toolCallId : ToolIds, toolName : ToolNames, input : Inputs]
    \cup [type : {"finish-step"}, finishReason : {"stop"}, usage : Usages]
    \cup [type : {"finish-step"}, finishReason : {"length"}, usage : {FullUsage}]
    \cup [type : {"finish"}, finishReason : {"stop"},
           totalUsage : {EmptyRecord, [inputTokens |-> 100], [outputTokens |-> 50],
                         [totalTokens |-> 7], FullUsage}]
    \cup [type : {"finish"}, finishReason : FinishReasons, totalUsage : {FullUsage}]
    \cup [type : {"error"}, error : ErrorValues]

NoChunk == [type |-> "none"]
NoResult == [type |-> "none"]

\* what a handler hands back: its result and the context as it leaves it
Outcome(r, c) == [result |-> r, context |-> c]

Skip == [type |-> "skip"]
Error(message) == [type |-> "error", error |-> message]
Events(events) == [type |-> "events", events |-> events]

\* a JavaScript exception leaving the adapter (a read of a field of undefined)
Raise(message) == [type |-> "throw", error |-> message]

----------------------------------------------------------------------------
(* Adapter A: anthropic/messages/chunk-from-ai.ts *)

Null == "null"

anthropic_createChunkConversionContext(options) ==
    [id |-> options.id,
     model |-> options.model,
     contentBlockIndex |-> 0,
     toolCallIndices |-> <<>>,
     toolCallInputs |-> <<>>,
     messageStarted |-> FALSE,
     inputTokens |-> 0,
     outputTokens |-> 0]

\* a variant that reports no input tokens, whatever the context has recorded
createMessageStartEvent_zero(ctx) ==
    [type |-> "message_start",
     message |->
        [id |-> ctx.id,
         type |-> "message",
         role |-> "assistant",
         model |-> ctx.model,
         content |-> <<>>,
         stop_reason |-> Null,
         stop_sequence |-> Null,
         usage |->
            [input_tokens |-> 0,
             output_tokens |-> 0,
             cache_creation_input_tokens |-> Null,
             cache_read_input_tokens |-> Null,
             cache_creation |-> Null,
             server_tool_use |-> Null,
             service_tier |-> Null]]]

createMessageStartEvent(ctx) ==
    [type |-> "message_start",
     message |->
        [id |-> ctx.id,
         type |-> "message",
         role |-> "assistant",
         model |-> ctx.model,
         content |-> <<>>,
         stop_reason |-> Null,
         stop_sequence |-> Null,
         usage |->
            [input_tokens |-> ctx.inputTokens,
             output_tokens |-> 0,
             cache_creation_input_tokens |-> Null,
             cache_read_input_tokens |-> Null,
             cache_creation |-> Null,
             server_tool_use |-> Null,
             service_tier |-> Null]]]

createContentBlockStartEvent(index, contentBlock) ==
    [type |-> "content_block_start", index |-> index, content_block |-> contentBlock]

convertStopReason(finishReason) ==
    CASE finishReason = "stop" -> "end_turn"
      [] finishReason = "length" -> "max_tokens"
      [] finishReason = "tool-calls" -> "tool_use"
      [] finishReason = "content-filter" -> "refusal"
      [] OTHER -> "end_turn"

\* a variant that does not consult the flag
EnsureMessageStart_always(ctx) == <<createMessageStartEvent(ctx)>>

\* "if (!context.messageStarted) { events.push(createMessageStartEvent(context)); ... }"
EnsureMessageStart(ctx) ==
    IF ctx.messageStarted THEN <<>> ELSE <<createMessageStartEvent(ctx)>>

anthropic_text_start(c, ctx) ==
    LET events ==
            EnsureMessageStart(ctx)
            \o <<createContentBlockStartEvent(ctx.contentBlockIndex,
                    [type |-> "text", text |-> <<>>, citations |-> Null])>>
    IN  Outcome(IF Len(events) > 0 THEN Events(events) ELSE Skip,
                [ctx EXCEPT !.messageStarted = TRUE])

anthropic_text_delta(c, ctx) ==
    Outcome(Events(<<[type |-> "content_block_delta",
                      index |-> ctx.contentBlockIndex,
                      delta |-> [type |-> "text_delta", text |-> c.text]]>>),
            ctx)

\* a variant that takes the envelope to be closed with the block
anthropic_text_end_resetting(c, ctx) ==
    Outcome(Events(<<[type |-> "content_block_stop", index |-> ctx.contentBlockIndex]>>),
            [ctx EXCEPT !.contentBlockIndex = @ + 1, !.messageStarted = FALSE])

anthropic_text_end(c, ctx) ==
    Outcome(Events(<<[type |-> "content_block_stop", index |-> ctx.contentBlockIndex]>>),
            [ctx EXCEPT !.contentBlockIndex = @ + 1])

anthropic_reasoning_start(c, ctx) ==
    Outcome(Events(EnsureMessageStart(ctx)
                   \o <<createContentBlockStartEvent(ctx.contentBlockIndex,
                           [type |-> "thinking", thinking |-> <<>>, signature |-> <<>>])>>),
            [ctx EXCEPT !.messageStarted = TRUE])

anthropic_reasoning_delta(c, ctx) ==
    Outcome(Events(<<[type |-> "content_block_delta",
                      index |-> ctx.contentBlockIndex,
                      delta |-> [type |-> "thinking_delta", thinking |-> c.text]]>>),
            ctx)

\* a variant that closes the block and leaves the counter where it was
anthropic_reasoning_end_still(c, ctx) ==
    Outcome(Events(<<[type |-> "content_block_stop", index |-> ctx.contentBlockIndex]>>),
            ctx)

anthropic_reasoning_end(c, ctx) ==
    Outcome(Events(<<[type |-> "content_block_stop", index |-> ctx.contentBlockIndex]>>),
            [ctx EXCEPT !.contentBlockIndex = @ + 1])

anthropic_tool_input_start(c, ctx) ==
    Outcome(Events(EnsureMessageStart(ctx)
                   \o <<createContentBlockStartEvent(ctx.contentBlockIndex,
                           [type |-> "tool_use", id |-> c.id, name |-> c.toolName,
                            input |-> <<>>])>>),
            [ctx EXCEPT !.messageStarted = TRUE,
                        !.toolCallIndices = MapSet(@, c.id, ctx.contentBlockIndex),
                        !.toolCallInputs = MapSet(@, c.id, <<>>)])

\* a variant that emits the delta at the current index
anthropic_tool_input_delta_current(c, ctx) ==
    IF ~MapHas(ctx.toolCallIndices, c.id)
    THEN Outcome(Error(<<"Unknown tool call id: ", c.id>>), ctx)
    ELSE LET currentInput ==
                 IF MapHas(ctx.toolCallInputs, c.id)
                 THEN MapGet(ctx.toolCallInputs, c.id) ELSE <<>>
         IN  Outcome(Events(<<[type |-> "content_block_delta",
                               index |-> ctx.contentBlockIndex,
                               delta |-> [type |-> "input_json_delta",
                                          partial_json |-> c.delta]]>>),
                     [ctx EXCEPT !.toolCallInputs =
                                     MapSet(@, c.id, currentInput \o c.delta)])

anthropic_tool_input_delta(c, ctx) ==
    IF ~MapHas(ctx.toolCallIndices, c.id)
    THEN Outcome(Error(<<"Unknown tool call id: ", c.id>>), ctx)
    ELSE LET index == MapGet(ctx.toolCallIndices, c.id)
             currentInput ==
                 IF MapHas(ctx.toolCallInputs, c.id)
                 THEN MapGet(ctx.toolCallInputs, c.id) ELSE <<>>
         IN  Outcome(Events(<<[type |-> "content_block_delta",
                               index |-> index,
                               delta |-> [type |-> "input_json_delta",
                                          partial_json |-> c.delta]]>>),
                     [ctx EXCEPT !.toolCallInputs =
                                     MapSet(@, c.id, currentInput \o c.delta)])

\* a variant that closes the block at the current index
anthropic_tool_input_end_current(c, ctx) ==
    IF ~MapHas(ctx.toolCallIndices, c.id)
    THEN Outcome(Error(<<"Unknown tool call id: ", c.id>>), ctx)
    ELSE Outcome(Events(<<[type |-> "content_block_stop",
                           index |-> ctx.contentBlockIndex]>>),
                 [ctx EXCEPT !.contentBlockIndex = @ + 1])

\* a variant that counts the block before it looks the id up
anthropic_tool_input_end_counting(c, ctx) ==
    IF ~MapHas(ctx.toolCallIndices, c.id)
    THEN Outcome(Error(<<"Unknown tool call id: ", c.id>>),
                 [ctx EXCEPT !.contentBlockIndex = @ + 1])
    ELSE Outcome(Events(<<[type |-> "content_block_stop",
                           index |-> MapGet(ctx.toolCallIndices, c.id)]>>),
                 [ctx EXCEPT !.contentBlockIndex = @ + 1])

\* a variant that forgets the id once its input has ended
anthropic_tool_input_end_forgetting(c, ctx) ==
    IF ~MapHas(ctx.toolCallIndices, c.id)
    THEN Outcome(Error(<<"Unknown tool call id: ", c.id>>), ctx)
    ELSE Outcome(Events(<<[type |-> "content_block_stop",
                           index |-> MapGet(ctx.toolCallIndices, c.id)]>>),
                 [ctx EXCEPT !.contentBlockIndex = @ + 1,
                             !.toolCallIndices =
                                SelectSeq(@, LAMBDA entry : entry[1] # c.id)])

anthropic_tool_input_end(c, ctx) ==
    IF ~MapHas(ctx.toolCallIndices, c.id)
    THEN Outcome(Error(<<"Unknown tool call id: ", c.id>>), ctx)
    ELSE Outcome(Events(<<[type |-> "content_block_stop",
                           index |-> MapGet(ctx.toolCallIndices, c.id)]>>),
                 [ctx EXCEPT !.contentBlockIndex = @ + 1])

\* a variant that leaves the block index where it is after the complete block
anthropic_tool_call_still(c, ctx) ==
    LET index == ctx.contentBlockIndex
    IN  Outcome(Events(EnsureMessageStart(ctx)
                       \o <<createContentBlockStartEvent(index,
                               [type |-> "tool_use", id |-> c.toolCallId,
                                name |-> c.toolName, input |-> <<>>]),
                            [type |-> "content_block_delta",
                             index |-> index,
                             delta |-> [type |-> "input_json_delta",
                                        partial_json |-> JSONStringify(c.input)]],
                            [type |-> "content_block_stop", index |-> index]>>),
                [ctx EXCEPT !.messageStarted = TRUE,
                            !.toolCallIndices = MapSet(@, c.toolCallId, index)])

anthropic_tool_call(c, ctx) ==
    LET index == ctx.contentBlockIndex
    IN  Outcome(Events(EnsureMessageStart(ctx)
                       \o <<createContentBlockStartEvent(index,
                               [type |-> "tool_use", id |-> c.toolCallId,
                                name |-> c.toolName, input |-> <<>>]),
                            [type |-> "content_block_delta",
                             index |-> index,
                             delta |-> [type |-> "input_json_delta",
                                        partial_json |-> JSONStringify(c.input)]],
                            [type |-> "content_block_stop", index |-> index]>>),
                [ctx EXCEPT !.messageStarted = TRUE,
                            !.toolCallIndices = MapSet(@, c.toolCallId, index),
                            !.contentBlockIndex = @ + 1])

anthropic_finish_step(c, ctx) ==
    Outcome(Skip,
            [ctx EXCEPT !.inputTokens = Coalesce(c.usage, "inputTokens", @),
                        !.outputTokens = Coalesce(c.usage, "outputTokens", @)])

\* a variant that reports the running counters, whatever totalUsage says
anthropic_finish_running(c, ctx) ==
    Outcome(Events(EnsureMessageStart(ctx)
                   \o <<[type |-> "message_delta",
                         delta |-> [stop_reason |-> convertStopReason(c.finishReason),
                                    stop_sequence |-> Null],
                         usage |->
                            [output_tokens |-> ctx.outputTokens,
                             input_tokens |-> ctx.inputTokens,
                             cache_creation_input_tokens |-> Null,
                             cache_read_input_tokens |-> Null,
                             server_tool_use |-> Null]],
                        [type |-> "message_stop"]>>),
            [ctx EXCEPT !.messageStarted = TRUE])

\* a variant that begins the block count anew once the message has stopped
anthropic_finish_closing(c, ctx) ==
    Outcome(Events(EnsureMessageStart(ctx)
                   \o <<[type |-> "message_delta",
                         delta |-> [stop_reason |-> convertStopReason(c.finishReason),
                                    stop_sequence |-> Null],
                         usage |->
                            [output_tokens |->
                                Coalesce(c.totalUsage, "outputTokens", ctx.outputTokens),
                             input_tokens |->
                                Coalesce(c.totalUsage, "inputTokens", ctx.inputTokens),
                             cache_creation_input_tokens |-> Null,
                             cache_read_input_tokens |-> Null,
                             server_tool_use |-> Null]],
                        [type |-> "message_stop"]>>),
            [ctx EXCEPT !.messageStarted = TRUE, !.contentBlockIndex = 0])

anthropic_finish(c, ctx) ==
    Outcome(Events(EnsureMessageStart(ctx)
                   \o <<[type |-> "message_delta",
                         delta |-> [stop_reason |-> convertStopReason(c.finishReason),
                                    stop_sequence |-> Null],
                         usage |->
                            [output_tokens |->
                                Coalesce(c.totalUsage, "outputTokens", ctx.outputTokens),
                             input_tokens |->
                                Coalesce(c.totalUsage, "inputTokens", ctx.inputTokens),
                             cache_creation_input_tokens |-> Null,
                             cache_read_input_tokens |-> Null,
                             server_tool_use |-> Null]],
                        [type |-> "message_stop"]>>),
            [ctx EXCEPT !.messageStarted = TRUE])

\* a variant that emits message_start and leaves the flag as it was
anthropic_start_forgetful(c, ctx) ==
    LET events == EnsureMessageStart(ctx)
    IN  Outcome(IF Len(events) > 0 THEN Events(events) ELSE Skip, ctx)

anthropic_start(c, ctx) ==
    LET events == EnsureMessageStart(ctx)
    IN  Outcome(IF Len(events) > 0 THEN Events(events) ELSE Skip,
                [ctx EXCEPT !.messageStarted = TRUE])

anthropic_error(c, ctx) == Outcome(Error(String(c.error)), ctx)

anthropic_default(c, ctx) == Outcome(Error(<<"Unknown chunk type: ", c.type>>), ctx)

anthropicChunkFromAiSDK(c, ctx) ==
    CASE c.type = "text-start" -> anthropic_text_start(c, ctx)
      [] c.type = "text-delta" -> anthropic_text_delta(c, ctx)
      [] c.type = "text-end" -> anthropic_text_end(c, ctx)
      [] c.type = "reasoning-start" -> anthropic_reasoning_start(c, ctx)
      [] c.type = "reasoning-delta" -> anthropic_reasoning_delta(c, ctx)
      [] c.type = "reasoning-end" -> anthropic_reasoning_end(c, ctx)
      [] c.type = "tool-input-start" -> anthropic_tool_input_start(c, ctx)
      [] c.type = "tool-input-delta" -> anthropic_tool_input_delta(c, ctx)
      [] c.type = "tool-input-end" -> anthropic_tool_input_end(c, ctx)
      [] c.type = "tool-call" -> anthropic_tool_call(c, ctx)
      [] c.type \in {"tool-result", "tool-error"} -> Outcome(Skip, ctx)
      [] c.type = "finish-step" -> anthropic_finish_step(c, ctx)
      [] c.type = "finish" -> anthropic_finish(c, ctx)
      [] c.type = "start" -> anthropic_start(c, ctx)
      [] c.type = "start-step" -> Outcome(Skip, ctx)
      [] c.type = "abort" -> Outcome(Skip, ctx)
      [] c.type = "error" -> anthropic_error(c, ctx)
      [] c.type \in {"source", "file", "raw"} -> Outcome(Skip, ctx)
      [] OTHER -> anthropic_default(c, ctx)

----------------------------------------------------------------------------
(* Adapter B: openai/chat-completion/chunk-from-ai.ts *)

Chunk(c) == [type |-> "chunk", chunk |-> c]

\* now is Math.floor(Date.now() / 1000) at the time of the call
openai_createChunkConversionContext(options, now) ==
    [id |-> options.id,
     model |-> options.model,
     created |-> Coalesce(options, "created", now),
     toolCallIndices |-> <<>>,
     nextToolCallIndex |-> 0]

\* a chunk without usage has no usage field ("...(usage !== undefined && { usage })")
\* a variant that stamps every chunk one second after the construction time
createChunk_timed(ctx, choice) ==
    [id |-> ctx.id,
     object |-> "chat.completion.chunk",
     created |-> ctx.created + 1,
     model |-> ctx.model,
     choices |-> <<[index |-> 0,
                    delta |-> choice.delta,
                    finish_reason |-> choice.finish_reason,
                    logprobs |-> Null]>>]

createChunk(ctx, choice) ==
    [id |-> ctx.id,
     object |-> "chat.completion.chunk",
     created |-> ctx.created,
     model |-> ctx.model,
     choices |-> <<[index |-> 0,
                    delta |-> choice.delta,
                    finish_reason |-> choice.finish_reason,
                    logprobs |-> Null]>>]

createChunkWithUsage(ctx, choice, usage) ==
    [id |-> ctx.id,
     object |-> "chat.completion.chunk",
     created |-> ctx.created,
     model |-> ctx.model,
     choices |-> <<[index |-> 0,
                    delta |-> choice.delta,
                    finish_reason |-> choice.finish_reason,
                    logprobs |-> Null]>>,
     usage |-> usage]

openai_convertFinishReason(finishReason) ==
    CASE finishReason = "stop" -> "stop"
      [] finishReason = "length" -> "length"
      [] finishReason = "content-filter" -> "content_filter"
      [] finishReason = "tool-calls" -> "tool_calls"
      [] OTHER -> "stop"

\* a variant that always adds the two counts up
convertUsage_summing(usage) ==
    [prompt_tokens |-> Coalesce(usage, "inputTokens", 0),
     completion_tokens |-> Coalesce(usage, "outputTokens", 0),
     total_tokens |->
        Coalesce(usage, "inputTokens", 0) + Coalesce(usage, "outputTokens", 0)]

convertUsage(usage) ==
    [prompt_tokens |-> Coalesce(usage, "inputTokens", 0),
     completion_tokens |-> Coalesce(usage, "outputTokens", 0),
     total_tokens |->
        Coalesce(usage, "totalTokens",
                 Coalesce(usage, "inputTokens", 0) + Coalesce(usage, "outputTokens", 0))]

openai_text_delta(c, ctx) ==
    Outcome(Chunk(createChunk(ctx, [delta |-> [content |-> c.text],
                                    finish_reason |-> Null])),
            ctx)

openai_text_start(c, ctx) ==
    Outcome(Chunk(createChunk(ctx, [delta |-> [role |-> "assistant", content |-> <<>>],
                                    finish_reason |-> Null])),
            ctx)

\* a variant that assigns a new index whether or not the id has one
openai_assign_index_anew(ctx, id) ==
    [ctx EXCEPT !.nextToolCallIndex = @ + 1,
                !.toolCallIndices = MapSet(@, id, ctx.nextToolCallIndex)]

\* a variant that advances the counter before it takes the index: "++next"
openai_assign_index_advanced(ctx, id) ==
    IF MapHas(ctx.toolCallIndices, id)
    THEN ctx
    ELSE [ctx EXCEPT !.nextToolCallIndex = @ + 1,
                     !.toolCallIndices = MapSet(@, id, ctx.nextToolCallIndex + 1)]

\* "let index = get(id); if (index === undefined) { index = next++; set(id, index) }"
openai_assign_index(ctx, id) ==
    IF MapHas(ctx.toolCallIndices, id)
    THEN ctx
    ELSE [ctx EXCEPT !.nextToolCallIndex = @ + 1,
                     !.toolCallIndices = MapSet(@, id, ctx.nextToolCallIndex)]

openai_tool_input_start(c, ctx) ==
    LET after == openai_assign_index(ctx, c.id)
        index == MapGet(after.toolCallIndices, c.id)
    IN  Outcome(Chunk(createChunk(after,
                    [delta |-> [tool_calls |->
                                  <<[index |-> index,
                                     id |-> c.id,
                                     type |-> "function",
                                     function |-> [name |-> c.toolName,
                                                   arguments |-> <<>>]]>>],
                     finish_reason |-> Null])),
                after)

\* a variant that repeats the id and the type in every delta chunk
openai_tool_input_delta_repeating(c, ctx) ==
    IF ~MapHas(ctx.toolCallIndices, c.id)
    THEN Outcome(Error(<<"Unknown tool call id: ", c.id>>), ctx)
    ELSE Outcome(Chunk(createChunk(ctx,
                    [delta |-> [tool_calls |->
                                  <<[index |-> MapGet(ctx.toolCallIndices, c.id),
                                     id |-> c.id,
                                     type |-> "function",
                                     function |-> [arguments |-> c.delta]]>>],
                     finish_reason |-> Null])),
                 ctx)

openai_tool_input_delta(c, ctx) ==
    IF ~MapHas(ctx.toolCallIndices, c.id)
    THEN Outcome(Error(<<"Unknown tool call id: ", c.id>>), ctx)
    ELSE Outcome(Chunk(createChunk(ctx,
                    [delta |-> [tool_calls |->
                                  <<[index |-> MapGet(ctx.toolCallIndices, c.id),
                                     function |-> [arguments |-> c.delta]]>>],
                     finish_reason |-> Null])),
                 ctx)

\* a variant that emits nothing for a tool-call whose id has an index already
openai_tool_call_once(c, ctx) ==
    IF MapHas(ctx.toolCallIndices, c.toolCallId)
    THEN Outcome(Skip, ctx)
    ELSE LET after == openai_assign_index(ctx, c.toolCallId)
             index == MapGet(after.toolCallIndices, c.toolCallId)
         IN  Outcome(Chunk(createChunk(after,
                         [delta |-> [tool_calls |->
                                       <<[index |-> index,
                                          id |-> c.toolCallId,
                                          type |-> "function",
                                          function |->
                                            [name |-> c.toolName,
                                             arguments |-> JSONStringify(c.input)]]>>],
                          finish_reason |-> Null])),
                     after)

openai_tool_call(c, ctx) ==
    LET after == openai_assign_index(ctx, c.toolCallId)
        index == MapGet(after.toolCallIndices, c.toolCallId)
    IN  Outcome(Chunk(createChunk(after,
                    [delta |-> [tool_calls |->
                                  <<[index |-> index,
                                     id |-> c.toolCallId,
                                     type |-> "function",
                                     function |-> [name |-> c.toolName,
                                                   arguments |-> JSONStringify(c.input)]]>>],
                     finish_reason |-> Null])),
                after)

\* a variant that keeps finish_reason null until finish
openai_finish_step_silent(c, ctx) ==
    Outcome(Chunk(createChunkWithUsage(ctx,
                    [delta |-> EmptyRecord, finish_reason |-> Null],
                    convertUsage(c.usage))),
            ctx)

openai_finish_step(c, ctx) ==
    Outcome(Chunk(createChunkWithUsage(ctx,
                    [delta |-> EmptyRecord,
                     finish_reason |-> openai_convertFinishReason(c.finishReason)],
                    convertUsage(c.usage))),
            ctx)

\* a variant that forgets the assigned indices when the stream finishes
openai_finish_clearing(c, ctx) ==
    Outcome(Chunk(createChunkWithUsage(ctx,
                    [delta |-> EmptyRecord,
                     finish_reason |-> openai_convertFinishReason(c.finishReason)],
                    convertUsage(c.totalUsage))),
            [ctx EXCEPT !.toolCallIndices = <<>>, !.nextToolCallIndex = 0])

openai_finish(c, ctx) ==
    Outcome(Chunk(createChunkWithUsage(ctx,
                    [delta |-> EmptyRecord,
                     finish_reason |-> openai_convertFinishReason(c.finishReason)],
                    convertUsage(c.totalUsage))),
            ctx)

openai_error(c, ctx) == Outcome(Error(String(c.error)), ctx)

openai_default(c, ctx) == Outcome(Error(<<"Unknown chunk type: ", c.type>>), ctx)

openaiChunkFromAiSDK(c, ctx) ==
    CASE c.type = "text-delta" -> openai_text_delta(c, ctx)
      [] c.type = "text-start" -> openai_text_start(c, ctx)
      [] c.type = "text-end" -> Outcome(Skip, ctx)
      [] c.type = "reasoning-delta" -> Outcome(Skip, ctx)
      [] c.type \in {"reasoning-start", "reasoning-end"} -> Outcome(Skip, ctx)
      [] c.type = "tool-input-start" -> openai_tool_input_start(c, ctx)
      [] c.type = "tool-input-delta" -> openai_tool_input_delta(c, ctx)
      [] c.type = "tool-input-end" -> Outcome(Skip, ctx)
      [] c.type = "tool-call" -> openai_tool_call(c, ctx)
      [] c.type \in {"tool-result", "tool-error"} -> Outcome(Skip, ctx)
      [] c.type = "finish-step" -> openai_finish_step(c, ctx)
      [] c.type = "finish" -> openai_finish(c, ctx)
      [] c.type \in {"start", "start-step"} -> Outcome(Skip, ctx)
      [] c.type = "abort" -> Outcome(Skip, ctx)
      [] c.type = "error" -> openai_error(c, ctx)
      [] c.type \in {"source", "file", "raw"} -> Outcome(Skip, ctx)
      [] OTHER -> openai_default(c, ctx)

----------------------------------------------------------------------------
(* Adapter C: google/genai chunk-from-ai *)

Response(r) == [type |-> "response", response |-> r]

\* finishReason: undefined
Undefined == "undefined"

google_createChunkConversionContext(options) ==
    [responseId |-> options.responseId,
     modelVersion |-> options.modelVersion,
     accumulatedText |-> <<>>,
     accumulatedFunctionCalls |-> <<>>,
     inputTokens |-> 0,
     outputTokens |-> 0]

\* a variant without the case for tool-calls
google_convertFinishReason_short(finishReason) ==
    CASE finishReason = "stop" -> "STOP"
      [] finishReason = "length" -> "MAX_TOKENS"
      [] finishReason = "content-filter" -> "SAFETY"
      [] OTHER -> "OTHER"

google_convertFinishReason(finishReason) ==
    CASE finishReason = "stop" -> "STOP"
      [] finishReason = "length" -> "MAX_TOKENS"
      [] finishReason = "content-filter" -> "SAFETY"
      [] finishReason = "tool-calls" -> "STOP"
      [] OTHER -> "OTHER"

\* a variant that keeps the text it could not parse as the args
ParsedArgs_raw(text) ==
    IF text = <<>> THEN <<>>
    ELSE IF JSONParse(text).ok THEN JSONParse(text).value
    ELSE text

\* "let args = {}; try { if (funcCall.args) args = JSON.parse(funcCall.args) } catch { args = {} }"
ParsedArgs(text) ==
    IF text = <<>> THEN <<>>
    ELSE IF JSONParse(text).ok THEN JSONParse(text).value
    ELSE <<>>

FunctionCallPart(entry) ==
    [functionCall |-> [id |-> entry[1],
                       name |-> entry[2].name,
                       args |-> ParsedArgs(entry[2].args)]]

\* a variant that adds the text part whether or not text was accumulated
buildContent_texted(ctx) ==
    LET textParts == <<[text |-> ctx.accumulatedText]>>
        callParts ==
            [i \in 1..Len(ctx.accumulatedFunctionCalls) |->
                FunctionCallPart(ctx.accumulatedFunctionCalls[i])]
    IN  [role |-> "model", parts |-> textParts \o callParts]

buildContent(ctx) ==
    LET textParts ==
            IF ctx.accumulatedText # <<>> THEN <<[text |-> ctx.accumulatedText]>> ELSE <<>>
        callParts ==
            [i \in 1..Len(ctx.accumulatedFunctionCalls) |->
                FunctionCallPart(ctx.accumulatedFunctionCalls[i])]
        parts == textParts \o callParts
    IN  [role |-> "model",
         parts |-> IF Len(parts) = 0 THEN <<[text |-> <<>>]>> ELSE parts]

\* a variant that reports no usage before the final snapshot
buildIncrementalResponse_zero(ctx) ==
    [responseId |-> ctx.responseId,
     modelVersion |-> ctx.modelVersion,
     candidates |-> <<[content |-> buildContent(ctx), finishReason |-> Undefined]>>,
     usageMetadata |->
        [promptTokenCount |-> 0, candidatesTokenCount |-> 0, totalTokenCount |-> 0]]

buildIncrementalResponse(ctx) ==
    [responseId |-> ctx.responseId,
     modelVersion |-> ctx.modelVersion,
     candidates |-> <<[content |-> buildContent(ctx), finishReason |-> Undefined]>>,
     usageMetadata |->
        [promptTokenCount |-> ctx.inputTokens,
         candidatesTokenCount |-> ctx.outputTokens,
         totalTokenCount |-> ctx.inputTokens + ctx.outputTokens]]

\* a variant whose total falls back to the sum of the context's counters
buildFinalResponse_unresolved(ctx, finishReason, totalUsage) ==
    [responseId |-> ctx.responseId,
     modelVersion |-> ctx.modelVersion,
     candidates |-> <<[content |-> buildContent(ctx),
                       finishReason |-> google_convertFinishReason(finishReason)]>>,
     usageMetadata |->
        [promptTokenCount |-> Coalesce(totalUsage, "inputTokens", ctx.inputTokens),
         candidatesTokenCount |-> Coalesce(totalUsage, "outputTokens", ctx.outputTokens),
         totalTokenCount |->
            Coalesce(totalUsage, "totalTokens", ctx.inputTokens + ctx.outputTokens)]]

buildFinalResponse(ctx, finishReason, totalUsage) ==
    LET inputTokens == Coalesce(totalUsage, "inputTokens", ctx.inputTokens)
        outputTokens == Coalesce(totalUsage, "outputTokens", ctx.outputTokens)
    IN  [responseId |-> ctx.responseId,
         modelVersion |-> ctx.modelVersion,
         candidates |-> <<[content |-> buildContent(ctx),
                           finishReason |-> google_convertFinishReason(finishReason)]>>,
         usageMetadata |->
            [promptTokenCount |-> inputTokens,
             candidatesTokenCount |-> outputTokens,
             totalTokenCount |->
                Coalesce(totalUsage, "totalTokens", inputTokens + outputTokens)]]

\* a variant that assigns the text instead of appending it
google_text_delta_assigning(c, ctx) ==
    LET after == [ctx EXCEPT !.accumulatedText = c.text]
    IN  Outcome(Response(buildIncrementalResponse(after)), after)

google_text_delta(c, ctx) ==
    LET after == [ctx EXCEPT !.accumulatedText = @ \o c.text]
    IN  Outcome(Response(buildIncrementalResponse(after)), after)

\* a variant that keeps the entry of an id already recorded
google_tool_input_start_keeping(c, ctx) ==
    IF MapHas(ctx.accumulatedFunctionCalls, c.id)
    THEN Outcome(Skip, ctx)
    ELSE Outcome(Skip,
                 [ctx EXCEPT !.accumulatedFunctionCalls =
                                 MapSet(@, c.id, [name |-> c.toolName, args |-> <<>>])])

google_tool_input_start(c, ctx) ==
    Outcome(Skip,
            [ctx EXCEPT !.accumulatedFunctionCalls =
                            MapSet(@, c.id, [name |-> c.toolName, args |-> <<>>])])

\* a variant that assigns the delta instead of appending it
google_tool_input_delta_assigning(c, ctx) ==
    IF ~MapHas(ctx.accumulatedFunctionCalls, c.id)
    THEN Outcome(Error(<<"Unknown tool call id: ", c.id>>), ctx)
    ELSE LET funcCall == MapGet(ctx.accumulatedFunctionCalls, c.id)
             after == [ctx EXCEPT !.accumulatedFunctionCalls =
                                      MapSet(@, c.id, [funcCall EXCEPT !.args = c.delta])]
         IN  Outcome(Response(buildIncrementalResponse(after)), after)

\* a variant without the lookup guard: "funcCall.args" of undefined throws
google_tool_input_delta_unguarded(c, ctx) ==
    IF ~MapHas(ctx.accumulatedFunctionCalls, c.id)
    THEN Outcome(Raise(<<"TypeError">>), ctx)
    ELSE LET funcCall == MapGet(ctx.accumulatedFunctionCalls, c.id)
             after == [ctx EXCEPT !.accumulatedFunctionCalls =
                                      MapSet(@, c.id,
                                             [funcCall EXCEPT !.args = @ \o c.delta])]
         IN  Outcome(Response(buildIncrementalResponse(after)), after)

google_tool_input_delta(c, ctx) ==
    IF ~MapHas(ctx.accumulatedFunctionCalls, c.id)
    THEN Outcome(Error(<<"Unknown tool call id: ", c.id>>), ctx)
    ELSE LET funcCall == MapGet(ctx.accumulatedFunctionCalls, c.id)
             after == [ctx EXCEPT !.accumulatedFunctionCalls =
                                      MapSet(@, c.id,
                                             [funcCall EXCEPT !.args = @ \o c.delta])]
         IN  Outcome(Response(buildIncrementalResponse(after)), after)

google_tool_input_end(c, ctx) == Outcome(Response(buildIncrementalResponse(ctx)), ctx)

google_tool_call(c, ctx) ==
    LET after == [ctx EXCEPT !.accumulatedFunctionCalls =
                                 MapSet(@, c.toolCallId,
                                        [name |-> c.toolName,
                                         args |-> JSONStringify(c.input)])]
    IN  Outcome(Response(buildIncrementalResponse(after)), after)

\* a variant that takes a count the event leaves undefined to be zero
google_finish_step_resetting(c, ctx) ==
    Outcome(Skip,
            [ctx EXCEPT !.inputTokens = Coalesce(c.usage, "inputTokens", 0),
                        !.outputTokens = Coalesce(c.usage, "outputTokens", 0)])

google_finish_step(c, ctx) ==
    Outcome(Skip,
            [ctx EXCEPT !.inputTokens = Coalesce(c.usage, "inputTokens", @),
                        !.outputTokens = Coalesce(c.usage, "outputTokens", @)])

google_finish(c, ctx) ==
    Outcome(Response(buildFinalResponse(ctx, c.finishReason, c.totalUsage)), ctx)

google_error(c, ctx) == Outcome(Error(String(c.error)), ctx)

google_default(c, ctx) == Outcome(Error(<<"Unknown chunk type: ", c.type>>), ctx)

\* a variant whose abort case discards what was accumulated
googleChunkFromAiSDK_clearing(c, ctx) ==
    CASE c.type = "text-start" -> Outcome(Skip, ctx)
      [] c.type = "text-delta" -> google_text_delta(c, ctx)
      [] c.type = "text-end" -> Outcome(Skip, ctx)
      [] c.type \in {"reasoning-start", "reasoning-delta", "reasoning-end"} ->
            Outcome(Skip, ctx)
      [] c.type = "tool-input-start" -> google_tool_input_start(c, ctx)
      [] c.type = "tool-input-delta" -> google_tool_input_delta(c, ctx)
      [] c.type = "tool-input-end" -> google_tool_input_end(c, ctx)
      [] c.type = "tool-call" -> google_tool_call(c, ctx)
      [] c.type \in {"tool-result", "tool-error"} -> Outcome(Skip, ctx)
      [] c.type = "finish-step" -> google_finish_step(c, ctx)
      [] c.type = "finish" -> google_finish(c, ctx)
      [] c.type \in {"start", "start-step"} -> Outcome(Skip, ctx)
      [] c.type = "abort" ->
            Outcome(Skip, [ctx EXCEPT !.accumulatedText = <<>>,
                                      !.accumulatedFunctionCalls = <<>>])
      [] c.type = "error" -> google_error(c, ctx)
      [] c.type \in {"source", "file", "raw"} -> Outcome(Skip, ctx)
      [] OTHER -> google_default(c, ctx)

googleChunkFromAiSDK(c, ctx) ==
    CASE c.type = "text-start" -> Outcome(Skip, ctx)
      [] c.type = "text-delta" -> google_text_delta(c, ctx)
      [] c.type = "text-end" -> Outcome(Skip, ctx)
      [] c.type \in {"reasoning-start", "reasoning-delta", "reasoning-end"} ->
            Outcome(Skip, ctx)
      [] c.type = "tool-input-start" -> google_tool_input_start(c, ctx)
      [] c.type = "tool-input-delta" -> google_tool_input_delta(c, ctx)
      [] c.type = "tool-input-end" -> google_tool_input_end(c, ctx)
      [] c.type = "tool-call" -> google_tool_call(c, ctx)
      [] c.type \in {"tool-result", "tool-error"} -> Outcome(Skip, ctx)
      [] c.type = "finish-step" -> google_finish_step(c, ctx)
      [] c.type = "finish" -> google_finish(c, ctx)
      [] c.type \in {"start", "start-step"} -> Outcome(Skip, ctx)
      [] c.type = "abort" -> Outcome(Skip, ctx)
      [] c.type = "error" -> google_error(c, ctx)
      [] c.type \in {"source", "file", "raw"} -> Outcome(Skip, ctx)
      [] OTHER -> google_default(c, ctx)

----------------------------------------------------------------------------
(* The upstream.  An upstream that keeps order sends, for every span, start  *)
(* before any delta and deltas before end, with ids unique among the open    *)
(* spans, and the model records its open spans; a free upstream sends any    *)
(* chunk at any time.  Of both, the tool-call ids introduced are recorded.   *)

SpanKey(c) ==
    CASE c.type \in {"text-start", "text-delta", "text-end"} -> <<"text", c.id>>
      [] c.type \in {"reasoning-start", "reasoning-delta", "reasoning-end"} ->
            <<"reasoning", c.id>>
      [] c.type \in {"tool-input-start", "tool-input-delta", "tool-input-end"} ->
            <<"tool-input", c.id>>
      [] c.type = "tool-call" -> <<"tool-input", c.toolCallId>>
      [] OTHER -> <<"none", "none">>

StartTypes == {"text-start", "reasoning-start", "tool-input-start"}
DeltaTypes == {"text-delta", "reasoning-delta", "tool-input-delta"}
EndTypes == {"text-end", "reasoning-end", "tool-input-end"}

InOrder(c, spans) ==
    CASE c.type \in StartTypes \cup {"tool-call"} -> SpanKey(c) \notin spans
      [] c.type \in DeltaTypes \cup EndTypes -> SpanKey(c) \in spans
      [] OTHER -> TRUE

OpenAfter(c, spans) ==
    CASE c.type \in StartTypes -> spans \cup {SpanKey(c)}
      [] c.type \in EndTypes -> spans \ {SpanKey(c)}
      [] OTHER -> spans

\* the tool-call ids the upstream has introduced, by tool-input-start or tool-call
IntroducedAfter(c, ids) ==
    CASE c.type = "tool-input-start" -> ids \cup {c.id}
      [] c.type = "tool-call" -> ids \cup {c.toolCallId}
      [] OTHER -> ids

FreeUpstream == [inOrder |-> FALSE, open |-> {}, introduced |-> {}]
OrderlyUpstream == [inOrder |-> TRUE, open |-> {}, introduced |-> {}]

\* what the upstream that keeps order sends: every kind of chunk, one payload each
\* where the payload does not bear on order
OrderlyChunks ==
    {c \in Chunks :
        /\ Has(c, "text") => c.text = <<"Hello">>
        /\ Has(c, "input") => c.input = <<MemberQuery>>
        /\ Has(c, "usage") => c.usage = EmptyRecord
        /\ Has(c, "totalUsage") => c.totalUsage = FullUsage /\ c.finishReason = "stop"
        /\ Has(c, "error") => c.error.kind = "string"}

\* the chunk c may come next
MaySend(up, c) == up.inOrder => c \in OrderlyChunks /\ InOrder(c, up.open)

UpstreamAfter(up, c) ==
    [up EXCEPT !.open = IF up.inOrder THEN OpenAfter(c, @) ELSE @,
               !.introduced = IntroducedAfter(c, @)]

----------------------------------------------------------------------------
(* The consumer: a summary of what it has received from the context so far *)

\* the life of one content-block index, driven by the events that carry it
BlockPhase(phase, eventType) ==
    CASE phase = "unused" /\ eventType = "content_block_start" -> "open"
      [] phase = "unused" -> "unopened"
      [] phase = "open" /\ eventType = "content_block_delta" -> "open"
      [] phase = "open" /\ eventType = "content_block_stop" -> "closed"
      [] phase = "open" -> "reopened"
      [] phase = "closed" -> "used-after-close"
      [] OTHER -> phase

PhaseAt(blocks, index) == IF index \in DOMAIN blocks THEN blocks[index] ELSE "unused"

BlockTypes == {"content_block_start", "content_block_delta", "content_block_stop"}

\* adapter A: message_start events counted, whether a content-block event came
\* with no message_start before it, and (followed for the upstream that keeps
\* order) the phase of every block index
AnthropicReceive(s, e) ==
    IF e.type = "message_start"
    THEN [s EXCEPT !.messageStarts = @ + 1]
    ELSE IF e.type \in BlockTypes
    THEN [s EXCEPT
            !.headless = @ \/ s.messageStarts = 0,
            !.blocks = IF s.followBlocks
                       THEN [i \in DOMAIN s.blocks \cup {e.index} |->
                               IF i = e.index
                               THEN BlockPhase(PhaseAt(s.blocks, i), e.type)
                               ELSE s.blocks[i]]
                       ELSE @]
    ELSE s

RECURSIVE AnthropicReceiveAll(_, _)
AnthropicReceiveAll(s, events) ==
    IF Len(events) = 0 THEN s
    ELSE AnthropicReceiveAll(AnthropicReceive(s, Head(events)), Tail(events))

AnthropicStream0(up) ==
    [messageStarts |-> 0, headless |-> FALSE, followBlocks |-> up.inOrder,
     blocks |-> EmptyRecord]

\* adapter B: per tool-call id, in order of first appearance, the index its first
\* chunk carried
ToolCallOf(c) == c.choices[1].delta.tool_calls[1]

OpenAIReceive(s, c) ==
    IF Has(c.choices[1].delta, "tool_calls")
       /\ Has(ToolCallOf(c), "id")
       /\ ~MapHas(s.firstIndex, ToolCallOf(c).id)
    THEN [s EXCEPT !.firstIndex = Append(@, <<ToolCallOf(c).id, ToolCallOf(c).index>>)]
    ELSE s

OpenAIStream0 == [firstIndex |-> <<>>]

\* adapter C: the text of a snapshot, and the snapshot received last
SnapshotText(r) ==
    LET parts == r.candidates[1].content.parts
    IN  IF Has(parts[1], "text") THEN parts[1].text ELSE <<>>

GoogleReceive(s, r) == [s EXCEPT !.snapshots = TRUE, !.lastText = SnapshotText(r)]

GoogleStream0 == [snapshots |-> FALSE, lastText |-> <<>>]

Received(a, s, r) ==
    CASE a = "anthropic" ->
            IF r.type = "events" THEN AnthropicReceiveAll(s, r.events) ELSE s
      [] a = "openai" ->
            IF r.type = "chunk" THEN OpenAIReceive(s, r.chunk) ELSE s
      [] a = "google" ->
            IF r.type = "response" THEN GoogleReceive(s, r.response) ELSE s

----------------------------------------------------------------------------
(* The specification: one stream, one context; the caller hands one chunk at *)
(* a time to the adapter and passes the result on to the consumer.           *)

Adapters == {"anthropic", "openai", "google"}

AnthropicOptions == [id |-> "msg_123abc", model |-> "claude-sonnet-4-5-20250929"]
OpenAIOptions ==
    {[id |-> "chatcmpl-123", model |-> "gpt-4o", created |-> 1700000000],
     [id |-> "chatcmpl-123", model |-> "gpt-4o"]}
GoogleOptions == [responseId |-> "resp_123abc", modelVersion |-> "gemini-2.0-flash"]

\* the wall clock, in seconds, when the context is constructed
Clock == {1700000042}

\* the contexts a stream can start from
NewContexts(a) ==
    CASE a = "anthropic" -> {anthropic_createChunkConversionContext(AnthropicOptions)}
      [] a = "openai" ->
            {openai_createChunkConversionContext(options, now) :
                options \in OpenAIOptions, now \in Clock}
      [] a = "google" -> {google_createChunkConversionContext(GoogleOptions)}

NewStream(a, up) ==
    CASE a = "anthropic" -> AnthropicStream0(up)
      [] a = "openai" -> OpenAIStream0
      [] a = "google" -> GoogleStream0

\* the accumulated argument text of all tool calls together
RECURSIVE TotalLen(_)
TotalLen(map) == IF Len(map) = 0 THEN 0 ELSE Len(map[1][2]) + TotalLen(Tail(map))

RECURSIVE TotalArgs(_)
TotalArgs(map) == IF Len(map) = 0 THEN 0 ELSE Len(map[1][2].args) + TotalArgs(Tail(map))

\* the bounds of the model, on the context a call leaves
Within(a, ctx) ==
    CASE a = "anthropic" ->
            /\ ctx.contentBlockIndex <= MaxBlocks
            /\ TotalLen(ctx.toolCallInputs) <= MaxArgLen
      [] a = "openai" -> TRUE
      [] a = "google" ->
            /\ Len(ctx.accumulatedText) <= MaxTextLen
            /\ TotalArgs(ctx.accumulatedFunctionCalls) <= MaxArgLen

Translate(a, c, ctx) ==
    CASE a = "anthropic" -> anthropicChunkFromAiSDK(c, ctx)
      [] a = "openai" -> openaiChunkFromAiSDK(c, ctx)
      [] a = "google" -> googleChunkFromAiSDK(c, ctx)

Init ==
    /\ adapter \in Adapters
    /\ context \in NewContexts(adapter)
    /\ before = context
    /\ chunk = NoChunk
    /\ result = NoResult
    /\ upstream \in {FreeUpstream, OrderlyUpstream}
    /\ stream = NewStream(adapter, upstream)
    /\ script = <<>>
    /\ log = <<>>
    /\ heap = <<>>
    /\ streams = <<>>

\* The caller hands the next chunk of the upstream to the adapter, which mutates
\* the context and returns its result.
Fed(c, out) ==
    /\ before' = context
    /\ chunk' = c
    /\ context' = out.context
    /\ result' = out.result
    /\ upstream' = UpstreamAfter(upstream, c)
    /\ UNCHANGED <<adapter, stream, script, log, heap, streams>>

Sent(c, out) ==
    /\ script = <<>>
    /\ MaySend(upstream, c)
    /\ Within(adapter, out.context)
    /\ Fed(c, out)

CallAnthropic ==
    /\ chunk = NoChunk
    /\ adapter = "anthropic"
    /\ \E c \in Chunks : Sent(c, anthropicChunkFromAiSDK(c, context))

CallOpenAI ==
    /\ chunk = NoChunk
    /\ adapter = "openai"
    /\ \E c \in Chunks : Sent(c, openaiChunkFromAiSDK(c, context))

CallGoogle ==
    /\ chunk = NoChunk
    /\ adapter = "google"
    /\ \E c \in Chunks : Sent(c, googleChunkFromAiSDK(c, context))

\* The caller branches on the result's tag and passes what it holds on to the
\* consumer, then turns to the next chunk.
Deliver ==
    /\ chunk # NoChunk
    /\ stream' = Received(adapter, stream, result)
    /\ log' = IF script # <<>> THEN Append(log, result) ELSE log
    /\ chunk' = NoChunk
    /\ result' = NoResult
    /\ before' = context
    /\ UNCHANGED <<adapter, context, upstream, script, heap, streams>>

Next == CallAnthropic \/ CallOpenAI \/ CallGoogle \/ Deliver

Spec == Init /\ [][Next]_vars

----------------------------------------------------------------------------
(* Scripted streams: the upstream sends one of a family of chunk sequences, *)
(* and every result is kept.                                                *)

ScenarioTexts == {<<"Hello">>, <<", ">>, <<"world!">>}

\* the text stream of the tests' "complete text streaming sequence"
TextScenario(f1, f2, f3) ==
    <<[type |-> "start"],
      [type |-> "start-step"],
      [type |-> "text-start", id |-> "t1"],
      [type |-> "text-delta", id |-> "t1", text |-> f1],
      [type |-> "text-delta", id |-> "t1", text |-> f2],
      [type |-> "text-delta", id |-> "t1", text |-> f3],
      [type |-> "text-end", id |-> "t1"],
      [type |-> "finish-step", finishReason |-> "stop", usage |-> FullUsage],
      [type |-> "finish", finishReason |-> "stop", totalUsage |-> FullUsage]>>

TextScenarios == {TextScenario(f1, f2, f3) : f1, f2, f3 \in ScenarioTexts}

\* every stream of ToolScriptLen tool chunks for one tool id
ToolScripts ==
    LET ToolChunks ==
            {c \in Chunks :
                /\ c.type \in {"tool-input-start", "tool-input-delta", "tool-input-end"}
                   \/ (c.type = "tool-call" /\ c.input = <<MemberQuery>>)
                /\ SpanKey(c)[2] = "call_1"}
    IN  [1..ToolScriptLen -> ToolChunks]

\* the number of spans of a stream of whole spans
SpanCount == 3

\* a whole span of each kind, as the tests' streaming sequences send them: a
\* text span, a reasoning span, a tool-input span, a complete tool-call; and
\* the two events that end a step's stream, a finish and an error
WholeSpan(kind) ==
    CASE kind = "text" ->
            <<[type |-> "text-start", id |-> "t1"],
              [type |-> "text-delta", id |-> "t1", text |-> <<"Hello">>],
              [type |-> "text-end", id |-> "t1"]>>
      [] kind = "reasoning" ->
            <<[type |-> "reasoning-start", id |-> "t1"],
              [type |-> "reasoning-delta", id |-> "t1", text |-> <<"Hello">>],
              [type |-> "reasoning-end", id |-> "t1"]>>
      [] kind = "tool-input" ->
            <<[type |-> "tool-input-start", id |-> "call_1", toolName |-> "get_weather"],
              [type |-> "tool-input-delta", id |-> "call_1", delta |-> <<LB>>],
              [type |-> "tool-input-delta", id |-> "call_1", delta |-> <<MemberQuery, RB>>],
              [type |-> "tool-input-end", id |-> "call_1"]>>
      [] kind = "tool-call" ->
            <<[type |-> "tool-call", toolCallId |-> "call_1", toolName |-> "get_weather",
               input |-> <<MemberQuery>>]>>
      [] kind = "finish" ->
            <<[type |-> "finish", finishReason |-> "stop", totalUsage |-> FullUsage]>>
      [] kind = "error" ->
            <<[type |-> "error",
               error |-> [kind |-> "string", text |-> <<"String error message">>]]>>

\* the streams of SpanCount whole spans, one after the other, after a start
SpanScripts ==
    LET RECURSIVE SpansInTurn(_)
        SpansInTurn(kinds) ==
            IF Len(kinds) = 0 THEN <<>>
            ELSE WholeSpan(Head(kinds)) \o SpansInTurn(Tail(kinds))
    IN  {<<[type |-> "start"]>> \o SpansInTurn(kinds) :
            kinds \in [1..SpanCount -> {"text", "reasoning", "tool-input", "tool-call",
                                        "finish", "error"}]}

Scripts == TextScenarios \cup ToolScripts \cup SpanScripts

\* the chunks handed over so far, the pending one included
History == SubSeq(script, 1, Len(log) + (IF chunk = NoChunk THEN 0 ELSE 1))

InitScript ==
    /\ adapter \in Adapters
    /\ context \in NewContexts(adapter)
    /\ before = context
    /\ chunk = NoChunk
    /\ result = NoResult
    /\ upstream = FreeUpstream
    /\ stream = NewStream(adapter, upstream)
    /\ script \in Scripts
    /\ log = <<>>
    /\ heap = <<>>
    /\ streams = <<>>

CallScripted ==
    /\ chunk = NoChunk
    /\ Len(log) < Len(script)
    /\ Fed(script[Len(log) + 1], Translate(adapter, script[Len(log) + 1], context))

NextScript == CallScripted \/ Deliver

SpecScript == InitScript /\ [][NextScript]_vars

----------------------------------------------------------------------------
(* Two streams side by side.  Each has a context of its own, made by one    *)
(* constructor call; the Map objects of the contexts live in a heap and the *)
(* contexts hold references to them, so that two contexts can be told to     *)
(* share an object or not.  The calls of the two streams interleave freely.  *)

\* the length of the scripts of the two streams
PairScriptLen == 2

\* the Map-valued fields of a context, in the order the constructor creates them
MapFields(a) ==
    CASE a = "anthropic" -> <<"toolCallIndices", "toolCallInputs">>
      [] a = "openai" -> <<"toolCallIndices">>
      [] a = "google" -> <<"accumulatedFunctionCalls">>

IsMapField(a, field) == \E k \in 1..Len(MapFields(a)) : MapFields(a)[k] = field

\* a variant in which the Maps are created once, when the module is loaded
NewMap_shared(objects, k) == k

\* "new Map()": the k-th Map a constructor call creates is an object that did
\* not exist before the call
NewMap(objects, k) == Len(objects) + k

\* createChunkConversionContext of adapter a, on values
createChunkConversionContext(a, options, now) ==
    CASE a = "anthropic" -> anthropic_createChunkConversionContext(options)
      [] a = "openai" -> openai_createChunkConversionContext(options, now)
      [] a = "google" -> google_createChunkConversionContext(options)

\* the reference of a Map field in a context made when the heap held objects
RefOf(a, field, objects) ==
    NewMap(objects, CHOOSE k \in 1..Len(MapFields(a)) : MapFields(a)[k] = field)

\* createChunkConversionContext of adapter a, on objects: the context, with a
\* reference in every Map field, and the heap after the call
Construct(a, options, now, objects) ==
    LET value == createChunkConversionContext(a, options, now)
        refs == {RefOf(a, MapFields(a)[k], objects) : k \in 1..Len(MapFields(a))}
        top == CHOOSE n \in refs \cup {Len(objects)} :
                    \A r \in refs \cup {Len(objects)} : r <= n
    IN  [context |->
            [f \in DOMAIN value |->
                IF IsMapField(a, f) THEN RefOf(a, f, objects) ELSE value[f]],
         heap |->
            [r \in 1..top |->
                IF r \in refs
                THEN value[CHOOSE f \in DOMAIN value :
                                IsMapField(a, f) /\ RefOf(a, f, objects) = r]
                ELSE objects[r]]]

\* the context as the adapter sees it: every reference followed
Load(a, ctx, objects) ==
    [f \in DOMAIN ctx |-> IF IsMapField(a, f) THEN objects[ctx[f]] ELSE ctx[f]]

\* the context object after a call that left the value after: the scalar fields
\* are written to the object, the Maps stay the same objects
ContextAfter(a, ctx, after) ==
    [f \in DOMAIN ctx |-> IF IsMapField(a, f) THEN ctx[f] ELSE after[f]]

\* the heap after that call: the Maps the context refers to hold what the call
\* left in them
HeapAfter(a, ctx, after, objects) ==
    [r \in DOMAIN objects |->
        IF \E f \in DOMAIN ctx : IsMapField(a, f) /\ ctx[f] = r
        THEN after[CHOOSE f \in DOMAIN ctx : IsMapField(a, f) /\ ctx[f] = r]
        ELSE objects[r]]

PairScripts ==
    LET PairChunks ==
            {[type |-> "tool-input-start", id |-> "call_1", toolName |-> "get_weather"],
             [type |-> "tool-input-delta", id |-> "call_1", delta |-> <<LB>>],
             [type |-> "tool-input-end", id |-> "call_1"],
             [type |-> "text-delta", id |-> "t1", text |-> <<"Hello">>]}
    IN  [1..PairScriptLen -> PairChunks]

\* the options of the two constructor calls
PairOptions(a) ==
    CASE a = "anthropic" ->
            <<[id |-> "msg_1", model |-> "claude-sonnet-4-5-20250929"],
              [id |-> "msg_2", model |-> "claude-sonnet-4-5-20250929"]>>
      [] a = "openai" ->
            <<[id |-> "chatcmpl-1", model |-> "gpt-4o", created |-> 1700000000],
              [id |-> "chatcmpl-2", model |-> "gpt-4o"]>>
      [] a = "google" ->
            <<[responseId |-> "resp_1", modelVersion |-> "gemini-2.0-flash"],
              [responseId |-> "resp_2", modelVersion |-> "gemini-2.0-flash"]>>

InitPair ==
    /\ adapter \in Adapters
    /\ context = EmptyRecord
    /\ before = EmptyRecord
    /\ chunk = NoChunk
    /\ result = NoResult
    /\ upstream = FreeUpstream
    /\ stream = EmptyRecord
    /\ script = <<>>
    /\ log = <<>>
    /\ \E first, second \in PairScripts, now \in Clock, other \in 1..2 :
        LET one == Construct(adapter, PairOptions(adapter)[1], now, <<>>)
            two == Construct(adapter, PairOptions(adapter)[other], now, one.heap)
        IN  /\ heap = two.heap
            /\ streams =
                <<[options |-> PairOptions(adapter)[1], now |-> now,
                   context |-> one.context, script |-> first, log |-> <<>>,
                   turns |-> <<>>],
                  [options |-> PairOptions(adapter)[other], now |-> now,
                   context |-> two.context, script |-> second, log |-> <<>>,
                   turns |-> <<>>]>>

\* one call of stream i: its next chunk, with its context; turns records the
\* places of the stream's calls among all calls
CallPaired(i) ==
    /\ Len(streams[i].log) < Len(streams[i].script)
    /\ LET c == streams[i].script[Len(streams[i].log) + 1]
           out == Translate(adapter, c, Load(adapter, streams[i].context, heap))
       IN  /\ streams' =
                [streams EXCEPT
                    ![i].context = ContextAfter(adapter, @, out.context),
                    ![i].log = Append(@, out.result),
                    ![i].turns = Append(@, Len(streams[1].log) + Len(streams[2].log) + 1)]
           /\ heap' = HeapAfter(adapter, streams[i].context, out.context, heap)
    /\ UNCHANGED <<adapter, context, before, chunk, result, upstream, stream, script, log>>

NextPair == CallPaired(1) \/ CallPaired(2)

SpecPair == InitPair /\ [][NextPair]_vars

----------------------------------------------------------------------------
(* Properties.  A call is pending when chunk is not NoChunk: then before is  *)
(* the context the call was made on, context the context it left, result    *)
(* what it returned.                                                         *)

Called == chunk # NoChunk

\* what the consumer has received, the pending result included
Seen == IF Called THEN Received(adapter, stream, result) ELSE stream

\* a tool-input-delta or tool-input-end whose id the upstream never introduced
UnknownId ==
    /\ Called
    /\ chunk.type \in {"tool-input-delta", "tool-input-end"}
    /\ chunk.id \notin upstream.introduced

\* C1 as stated: in each of the three adapters a tool-input-delta or a
\* tool-input-end for an id never introduced returns an error result and
\* leaves every field of the context as it was.
C1_UnknownIdAlwaysError ==
    UnknownId => result.type = "error" /\ context = before

\* C1, amended: a tool-input-delta for an id never introduced returns the error
\* result "Unknown tool call id: <id>" in all three adapters; a tool-input-end
\* for such an id returns that error in adapter A, skip in adapter B and an
\* ordinary snapshot of the accumulated state in adapter C; in every one of
\* these cases the context is left exactly as it was.
C1_UnknownId ==
    UnknownId =>
        /\ context = before
        /\ chunk.type = "tool-input-delta" \/ adapter = "anthropic" =>
                result = Error(<<"Unknown tool call id: ", chunk.id>>)
        /\ chunk.type = "tool-input-end" /\ adapter = "openai" => result = Skip
        /\ chunk.type = "tool-input-end" /\ adapter = "google" =>
                result = Response(buildIncrementalResponse(before))

\* C1's case: an unknown id is rejected by adapter A on a context that already
\* knows another id and has counted a block
C1_Witness ==
    /\ UnknownId
    /\ adapter = "anthropic"
    /\ chunk.type = "tool-input-end"
    /\ upstream.introduced # {}
    /\ before.contentBlockIndex > 0
    /\ result.type = "error"

\* C2 as stated: whatever has been fed to an adapter-A context, the events
\* emitted so far contain message_start exactly once, and no content-block
\* event came before it.
C2_ExactlyOnce ==
    adapter = "anthropic" /\ Called =>
        Seen.messageStarts = 1 /\ ~Seen.headless

\* C2, amended: the events emitted from one adapter-A context contain
\* message_start at most once; they contain it exactly once as soon as a start,
\* text-start, reasoning-start, tool-input-start, tool-call or finish has been
\* processed (the flag messageStarted says so), whichever of them came first;
\* and when the spans arrive in lifecycle order, no content-block event
\* precedes it.
C2_AtMostOnce ==
    adapter = "anthropic" =>
        /\ Seen.messageStarts <= 1
        /\ context.messageStarted <=> Seen.messageStarts = 1
        /\ Called /\ chunk.type \in StartTypes \cup {"start", "tool-call", "finish"} =>
                Seen.messageStarts = 1
        /\ upstream.inOrder => ~Seen.headless

\* C2's case: a reasoning-start arrives on a context whose message_start was
\* triggered earlier, and brings no second one
C2_Witness ==
    /\ adapter = "anthropic"
    /\ Called
    /\ chunk.type = "reasoning-start"
    /\ before.messageStarted
    /\ stream.messageStarts = 1
    /\ Seen.messageStarts = 1
    /\ result.events[1].type = "content_block_start"

\* C3 as stated: for adapter A, on every stream whose spans arrive in lifecycle
\* order with ids unique among the open spans, spans open at the same time
\* included, the block indices in the emitted events are 0, 1, 2, ... without
\* gap, no index is used by two blocks, and for every index content_block_start
\* precedes its content_block_delta events, which precede content_block_stop.
C3_GaplessBlockIndices ==
    adapter = "anthropic" /\ upstream.inOrder =>
        /\ \A i \in DOMAIN Seen.blocks : Seen.blocks[i] \in {"open", "closed"}
        /\ \A i \in DOMAIN Seen.blocks : i = 0 \/ (i - 1) \in DOMAIN Seen.blocks

\* the index a tool-call chunk of adapter B carries
IndexOf(r) == ToolCallOf(r.chunk).index

\* C4: in adapter B every chunk for a tool-call id, a tool-input-delta chunk in
\* particular, carries the index that the first chunk of that id carried, so
\* any two tool-input-delta chunks of one id carry the same index; and the ids
\* get the indices 0, 1, 2, ... in the order of their first appearance by
\* tool-input-start or tool-call, however the ids are interleaved.
C4_IndexStability ==
    adapter = "openai" =>
        /\ \A i \in 1..Len(Seen.firstIndex) : Seen.firstIndex[i][2] = i - 1
        /\ MapKeys(Seen.firstIndex) = upstream.introduced
        /\ Called /\ chunk.type = "tool-input-delta" /\ chunk.id \in upstream.introduced =>
                /\ result.type = "chunk"
                /\ IndexOf(result) = MapGet(stream.firstIndex, chunk.id)
        /\ Called /\ chunk.type \in {"tool-input-start", "tool-call"} =>
                IndexOf(result) = MapGet(Seen.firstIndex, SpanKey(chunk)[2])

\* C4's case: a delta for the id that appeared first, after the second id has
\* appeared
C4_Witness ==
    /\ adapter = "openai"
    /\ Called
    /\ chunk.type = "tool-input-delta"
    /\ Len(stream.firstIndex) = 2
    /\ stream.firstIndex[1][1] = chunk.id
    /\ IndexOf(result) = 0

\* C5: in adapter C no call shortens or rewrites accumulatedText (the text
\* before the call is a prefix of the text after it), and every snapshot carries
\* the accumulated text, of which the text of the snapshot emitted before it is
\* a prefix.
C5_TextPrefixOrder ==
    adapter = "google" =>
        /\ IsPrefix(before.accumulatedText, context.accumulatedText)
        /\ Called /\ result.type = "response" =>
                /\ SnapshotText(result.response) = context.accumulatedText
                /\ IsPrefix(stream.lastText, SnapshotText(result.response))

\* C5's case: a second text-delta extends the text of the snapshot before it
C5_Witness ==
    /\ adapter = "google"
    /\ Called
    /\ chunk.type = "text-delta"
    /\ stream.snapshots
    /\ stream.lastText # <<>>
    /\ SnapshotText(result.response) = stream.lastText \o chunk.text

\* the finish-reason tables of C7
StopReasonTable ==
    ("stop" :> "end_turn") @@ ("length" :> "max_tokens") @@ ("tool-calls" :> "tool_use")
    @@ ("content-filter" :> "refusal") @@ ("error" :> "end_turn")
    @@ ("other" :> "end_turn") @@ ("unknown" :> "end_turn")

FinishReasonTable ==
    ("stop" :> "stop") @@ ("length" :> "length") @@ ("content-filter" :> "content_filter")
    @@ ("tool-calls" :> "tool_calls") @@ ("error" :> "stop")
    @@ ("other" :> "stop") @@ ("unknown" :> "stop")

GoogleFinishReasonTable ==
    ("stop" :> "STOP") @@ ("tool-calls" :> "STOP") @@ ("length" :> "MAX_TOKENS")
    @@ ("content-filter" :> "SAFETY") @@ ("error" :> "OTHER")
    @@ ("other" :> "OTHER") @@ ("unknown" :> "OTHER")

\* the finish reason a result carries
FinishLabel(a, r) ==
    CASE a = "anthropic" -> r.events[Len(r.events) - 1].delta.stop_reason
      [] a = "openai" -> r.chunk.choices[1].finish_reason
      [] a = "google" -> r.response.candidates[1].finishReason

\* C7: on every reachable context a finish (and, in adapter B, a finish-step)
\* carrying finish reason f yields the label the adapter's table gives for f:
\* A stop->end_turn, length->max_tokens, tool-calls->tool_use,
\* content-filter->refusal, error/other/unknown->end_turn; B stop->stop,
\* length->length, content-filter->content_filter, tool-calls->tool_calls,
\* error/other/unknown->stop; C stop->STOP, tool-calls->STOP,
\* length->MAX_TOKENS, content-filter->SAFETY, error/other/unknown->OTHER.
C7_FinishReasonMapping ==
    /\ Called /\ chunk.type = "finish" =>
        FinishLabel(adapter, result) =
            CASE adapter = "anthropic" -> StopReasonTable[chunk.finishReason]
              [] adapter = "openai" -> FinishReasonTable[chunk.finishReason]
              [] adapter = "google" -> GoogleFinishReasonTable[chunk.finishReason]
    /\ Called /\ chunk.type = "finish-step" /\ adapter = "openai" =>
        FinishLabel(adapter, result) = FinishReasonTable[chunk.finishReason]

\* C7's case: adapter C maps tool-calls to STOP on a context that holds a
\* function call
C7_Witness ==
    /\ Called
    /\ adapter = "google"
    /\ chunk.type = "finish"
    /\ chunk.finishReason = "tool-calls"
    /\ context.accumulatedFunctionCalls # <<>>
    /\ FinishLabel(adapter, result) = "STOP"

\* the closed vocabulary of chunk kinds
KnownTypes ==
    StartTypes \cup DeltaTypes \cup EndTypes
    \cup {"tool-call", "finish-step", "finish", "start", "error"} \cup InertTypes

\* the tags of an adapter's results, with the field each tag carries
Tags(a) ==
    CASE a = "anthropic" -> {"events", "skip", "error"}
      [] a = "openai" -> {"chunk", "skip", "error"}
      [] a = "google" -> {"response", "skip", "error"}

PayloadOf(tag) ==
    CASE tag = "events" -> {"events"}
      [] tag = "chunk" -> {"chunk"}
      [] tag = "response" -> {"response"}
      [] tag = "error" -> {"error"}
      [] OTHER -> {}

RECURSIVE AllDeltas(_, _)
AllDeltas(chunks, id) ==
    IF Len(chunks) = 0 THEN <<>>
    ELSE (IF Head(chunks).type = "tool-input-delta" /\ Head(chunks).id = id
          THEN Head(chunks).delta ELSE <<>>)
         \o AllDeltas(Tail(chunks), id)

\* the positions in the history of the chunks of one kind for a tool-call id
PositionsOf(type, id) ==
    {i \in 1..Len(History) : History[i].type = type /\ SpanKey(History[i])[2] = id}

\* the function-call parts for an id in a snapshot
PartsFor(r, id) ==
    LET parts == r.response.candidates[1].content.parts
    IN  {i \in 1..Len(parts) : Has(parts[i], "functionCall") /\ parts[i].functionCall.id = id}

ArgsOf(r, i) == r.response.candidates[1].content.parts[i].functionCall.args

\* every delta for id came after a tool-input-start for id
Started(id) ==
    /\ PositionsOf("tool-input-start", id) # {}
    /\ \A j \in PositionsOf("tool-input-delta", id) :
            \E i \in PositionsOf("tool-input-start", id) : i < j

\* a tool-input-end of adapter C for an id that a tool-input-start opened
EndOfStarted ==
    /\ adapter = "google"
    /\ Called
    /\ chunk.type = "tool-input-end"
    /\ Started(chunk.id)

\* C6 as stated: the snapshot adapter C returns for tool-input-end{id}, id
\* having been started before its deltas, has a function-call part for id whose
\* args are the JSON parse of the concatenation, in arrival order, of all
\* deltas sent for id in this context, also when id was started more than once
\* or a tool-call for id was received.
C6_ArgsOfAllDeltas ==
    EndOfStarted =>
        /\ result.type = "response"
        /\ PartsFor(result, chunk.id) # {}
        /\ JSONParse(AllDeltas(History, chunk.id)).ok =>
                \A i \in PartsFor(result, chunk.id) :
                    ArgsOf(result, i) = JSONParse(AllDeltas(History, chunk.id)).value

\* id was started once, and no tool-call carried it
StartedOnce(id) ==
    /\ Cardinality(PositionsOf("tool-input-start", id)) = 1
    /\ PositionsOf("tool-call", id) = {}

\* C6, amended: when id was started exactly once in this context, before any
\* of its deltas, and no tool-call for id was received, the snapshot returned
\* for tool-input-end{id} has exactly one function-call part for id, and its
\* args are the JSON parse of the concatenation, in arrival order, of the
\* deltas sent for id, or the empty object when that text is empty or is not
\* valid JSON.  (A repeated tool-input-start resets the text to empty, a
\* tool-call replaces it by the serialized input.)
C6_ArgsOfDeltasSinceStart ==
    EndOfStarted /\ StartedOnce(chunk.id) =>
        /\ result.type = "response"
        /\ Cardinality(PartsFor(result, chunk.id)) = 1
        /\ \A i \in PartsFor(result, chunk.id) :
                ArgsOf(result, i) =
                    IF JSONParse(AllDeltas(History, chunk.id)).ok
                    THEN JSONParse(AllDeltas(History, chunk.id)).value
                    ELSE <<>>

\* C6's case: a start, two deltas that together are a JSON object, and the end
C6_Witness ==
    /\ EndOfStarted
    /\ StartedOnce(chunk.id)
    /\ Cardinality(PositionsOf("tool-input-delta", chunk.id)) = 2
    /\ AllDeltas(History, chunk.id) = <<LB, MemberQuery, RB>>
    /\ \A i \in PartsFor(result, chunk.id) : ArgsOf(result, i) = <<MemberQuery>>

\* the events of the results so far, in call order
RECURSIVE AllEvents(_)
AllEvents(results) ==
    IF Len(results) = 0 THEN <<>>
    ELSE (IF Head(results).type = "events" THEN Head(results).events ELSE <<>>)
         \o AllEvents(Tail(results))

\* what C10 says of an event: its type, its block index, and its text or stop reason
Brief(e) ==
    CASE e.type = "content_block_start" -> <<e.type, e.index>>
      [] e.type = "content_block_delta" -> <<e.type, e.index, e.delta.type, e.delta.text>>
      [] e.type = "content_block_stop" -> <<e.type, e.index>>
      [] e.type = "message_delta" -> <<e.type, e.delta.stop_reason>>
      [] OTHER -> <<e.type>>

\* C10: the stream [start, start-step, text-start(t1), three text-delta(t1)
\* with fragments f1, f2, f3 ("Hello", ", ", "world!" among them), text-end(t1),
\* finish-step(usage 10/5/15), finish(stop, 10/5/15)] on a fresh adapter-A
\* context yields, in call order, exactly 8 events: message_start,
\* content_block_start(0), three content_block_delta(0) carrying f1, f2, f3
\* unchanged and in order, content_block_stop(0), message_delta(end_turn),
\* message_stop.
C10_TextScenario ==
    \A f1, f2, f3 \in ScenarioTexts :
        adapter = "anthropic" /\ script = TextScenario(f1, f2, f3) /\ Len(log) = Len(script) =>
            /\ Len(AllEvents(log)) = 8
            /\ [i \in 1..8 |-> Brief(AllEvents(log)[i])] =
                    << <<"message_start">>,
                       <<"content_block_start", 0>>,
                       <<"content_block_delta", 0, "text_delta", f1>>,
                       <<"content_block_delta", 0, "text_delta", f2>>,
                       <<"content_block_delta", 0, "text_delta", f3>>,
                       <<"content_block_stop", 0>>,
                       <<"message_delta", "end_turn">>,
                       <<"message_stop">> >>

\* C10's case: the stream of the claim has been fed entirely
C10_Witness ==
    /\ adapter = "anthropic"
    /\ script = TextScenario(<<"Hello">>, <<", ">>, <<"world!">>)
    /\ Len(log) = 9
    /\ Len(AllEvents(log)) = 8

\* the tool_calls array of the chunk a result carries
ToolCallsOf(r) == r.chunk.choices[1].delta.tool_calls

\* the script begins with a tool-input-start and two tool-input-delta chunks
StartThenTwoDeltas ==
    /\ Len(script) >= 3
    /\ script[1].type = "tool-input-start"
    /\ script[2].type = "tool-input-delta"
    /\ script[3].type = "tool-input-delta"
    /\ script[2].id = script[1].id
    /\ script[3].id = script[1].id

\* C11: tool-input-start(call_1, get_weather) and two tool-input-delta(call_1)
\* on a fresh adapter-B context yield three chunks, each with a single
\* tool_calls entry of index 0; the first entry carries id, type "function",
\* function.name and empty function.arguments, each of the other two carries
\* only index and function.arguments, equal to the delta of its event.
C11_ToolDeltaScenario ==
    adapter = "openai" /\ StartThenTwoDeltas /\ Len(log) >= 3 =>
        /\ \A i \in 1..3 : log[i].type = "chunk" /\ Len(ToolCallsOf(log[i])) = 1
        /\ ToolCallsOf(log[1])[1] =
                [index |-> 0, id |-> script[1].id, type |-> "function",
                 function |-> [name |-> script[1].toolName, arguments |-> <<>>]]
        /\ \A i \in 2..3 :
                ToolCallsOf(log[i])[1] =
                    [index |-> 0, function |-> [arguments |-> script[i].delta]]

\* C11's case: the start and two different deltas have been fed
C11_Witness ==
    /\ adapter = "openai"
    /\ StartThenTwoDeltas
    /\ script[1].id = "call_1"
    /\ script[1].toolName = "get_weather"
    /\ script[2].delta # script[3].delta
    /\ Len(log) = 3
    /\ ToolCallsOf(log[3])[1].function.arguments = script[3].delta

\* the parts of the snapshot a result carries
PartsOf(r) == r.response.candidates[1].content.parts

\* C12: one tool-call with input {query: "test"} on a fresh adapter-C context
\* yields one response snapshot whose parts are exactly one function-call part,
\* with the call's id and name and args equal to the input object, and no text
\* part.
C12_ToolCallScenario ==
    adapter = "google" /\ script # <<>> /\ Len(log) >= 1
    /\ script[1].type = "tool-call" /\ script[1].input = <<MemberQuery>> =>
        /\ log[1].type = "response"
        /\ PartsOf(log[1]) =
                <<[functionCall |-> [id |-> script[1].toolCallId,
                                     name |-> script[1].toolName,
                                     args |-> <<MemberQuery>>]]>>
        /\ \A i \in 1..Len(PartsOf(log[1])) : ~Has(PartsOf(log[1])[i], "text")

\* C12's case: the tool-call has been fed and its snapshot received
C12_Witness ==
    /\ adapter = "google"
    /\ Len(log) = 1
    /\ script[1].type = "tool-call"
    /\ script[1].input = <<MemberQuery>>
    /\ script[1].toolCallId = "call_1"
    /\ Len(PartsOf(log[1])) = 1

\* the context C13 describes: the identifiers supplied, every accumulator zero
ZeroContext(a, options, now) ==
    CASE a = "anthropic" ->
            [id |-> options.id, model |-> options.model, contentBlockIndex |-> 0,
             toolCallIndices |-> <<>>, toolCallInputs |-> <<>>,
             messageStarted |-> FALSE, inputTokens |-> 0, outputTokens |-> 0]
      [] a = "openai" ->
            [id |-> options.id, model |-> options.model,
             created |-> IF Has(options, "created") THEN options.created ELSE now,
             toolCallIndices |-> <<>>, nextToolCallIndex |-> 0]
      [] a = "google" ->
            [responseId |-> options.responseId, modelVersion |-> options.modelVersion,
             accumulatedText |-> <<>>, accumulatedFunctionCalls |-> <<>>,
             inputTokens |-> 0, outputTokens |-> 0]

\* the Map objects a context refers to
MapsOf(a, ctx) == {ctx[MapFields(a)[k]] : k \in 1..Len(MapFields(a))}

\* C13: the context a constructor call returns holds the identifiers supplied
\* and every accumulator at its zero value (A: contentBlockIndex 0, both maps
\* empty, messageStarted false, token counts 0; B: empty map,
\* nextToolCallIndex 0; C: empty text, empty map, token counts 0), and two
\* contexts made by two calls share no Map: the Maps of one are not Maps of
\* the other, and as long as a stream has made no call its context is as the
\* constructor returned it, whatever the other stream has done with its own.
C13_FreshContexts ==
    /\ \A i \in 1..2 :
        streams[i].log = <<>> =>
            Load(adapter, streams[i].context, heap) =
                ZeroContext(adapter, streams[i].options, streams[i].now)
    /\ MapsOf(adapter, streams[1].context) \cap MapsOf(adapter, streams[2].context) = {}
    /\ \A i \in 1..2 :
        Cardinality(MapsOf(adapter, streams[i].context)) = Len(MapFields(adapter))

\* C13's case: the first stream has filled a map of its context, the second
\* has made no call yet
C13_Witness ==
    /\ streams[2].log = <<>>
    /\ Len(streams[1].log) = PairScriptLen
    /\ \E r \in MapsOf(adapter, streams[1].context) : heap[r] # <<>>
    /\ \A r \in MapsOf(adapter, streams[2].context) : heap[r] = <<>>

\* the results of a stream driven alone, from the context ctx
RECURSIVE ResultsAlone(_, _, _)
ResultsAlone(a, ctx, chunks) ==
    IF Len(chunks) = 0 THEN <<>>
    ELSE LET out == Translate(a, Head(chunks), ctx)
         IN  <<out.result>> \o ResultsAlone(a, out.context, Tail(chunks))

\* C14: two streams, each with a context of its own, driven through the same
\* adapter with their calls interleaved in any order: the results each stream
\* has obtained so far are the results it obtains when it is driven alone.
C14_InterleavedStreams ==
    \A i \in 1..2 :
        streams[i].log =
            SubSeq(ResultsAlone(adapter,
                                createChunkConversionContext(adapter, streams[i].options,
                                                             streams[i].now),
                                streams[i].script),
                   1, Len(streams[i].log))

\* C14's case: the calls alternated, the first stream introduced the id that
\* the second stream then used without introducing it
C14_Witness ==
    /\ streams[1].turns = <<1, 3>>
    /\ streams[2].turns = <<2, 4>>
    /\ streams[1].script[1].type = "tool-input-start"
    /\ streams[2].script[1].type = "tool-input-delta"
    /\ streams[2].script[1].id = streams[1].script[1].id
    /\ streams[2].log[1].type = "error"

\* a call of adapter A whose result holds a message_start
EmitsMessageStart ==
    /\ adapter = "anthropic"
    /\ Called
    /\ result.type = "events"
    /\ \E k \in 1..Len(result.events) : result.events[k].type = "message_start"

\* C15 as stated: whenever adapter A emits message_start, the event carries
\* the context's id and model, an empty content list and an input-token count
\* of zero, whatever events came before it, a finish-step with a defined
\* inputTokens included.
C15_ZeroInputTokens ==
    EmitsMessageStart =>
        /\ result.events[1].type = "message_start"
        /\ result.events[1].message.id = before.id
        /\ result.events[1].message.model = before.model
        /\ result.events[1].message.content = <<>>
        /\ result.events[1].message.usage.input_tokens = 0

\* C15, amended: whenever adapter A emits message_start, the event is the
\* first of the result and carries the context's id and model, an empty content
\* list, an output-token count of zero and, as its input-token count, the
\* context's running inputTokens at the time of the call: zero when no
\* finish-step with a defined inputTokens came before, that finish-step's value
\* otherwise.
C15_RunningInputTokens ==
    EmitsMessageStart =>
        /\ result.events[1].type = "message_start"
        /\ \A k \in 2..Len(result.events) : result.events[k].type # "message_start"
        /\ result.events[1].message.id = before.id
        /\ result.events[1].message.model = before.model
        /\ result.events[1].message.content = <<>>
        /\ result.events[1].message.usage.output_tokens = 0
        /\ result.events[1].message.usage.input_tokens = before.inputTokens
        /\ before.inputTokens \in {0, FullUsage.inputTokens}

\* C15's case: a finish-step has recorded input tokens before the first event
\* that opens the envelope
C15_Witness ==
    /\ EmitsMessageStart
    /\ chunk.type = "text-start"
    /\ before.inputTokens = FullUsage.inputTokens
    /\ result.events[1].message.usage.input_tokens = FullUsage.inputTokens

\* C16: for adapter A a finish event returns an events result that consists of
\* message_start (present exactly when messageStarted was false before the
\* call), then message_delta, then message_stop, in that order; message_delta
\* carries the stop_reason mapped from finishReason, a null stop_sequence, and
\* a usage whose output_tokens and input_tokens are totalUsage's fields where
\* they are defined and the context's running outputTokens and inputTokens
\* where they are not.
C16_FinishEvents ==
    adapter = "anthropic" /\ Called /\ chunk.type = "finish" =>
        /\ result.type = "events"
        /\ LET events == result.events
               n == Len(events)
           IN  /\ n = IF before.messageStarted THEN 2 ELSE 3
               /\ ~before.messageStarted => events[1].type = "message_start"
               /\ events[n - 1].type = "message_delta"
               /\ events[n - 1].delta.stop_reason = StopReasonTable[chunk.finishReason]
               /\ events[n - 1].delta.stop_sequence = Null
               /\ events[n - 1].usage.output_tokens =
                    IF "outputTokens" \in DOMAIN chunk.totalUsage
                    THEN chunk.totalUsage.outputTokens ELSE before.outputTokens
               /\ events[n - 1].usage.input_tokens =
                    IF "inputTokens" \in DOMAIN chunk.totalUsage
                    THEN chunk.totalUsage.inputTokens ELSE before.inputTokens
               /\ events[n].type = "message_stop"

\* C16's case: finish is the first event that opens the envelope; its
\* totalUsage defines the input tokens only, a finish-step has recorded other
\* counts before
C16_Witness ==
    /\ adapter = "anthropic"
    /\ Called
    /\ chunk.type = "finish"
    /\ ~before.messageStarted
    /\ chunk.totalUsage = [inputTokens |-> 100]
    /\ before.inputTokens = 10
    /\ before.outputTokens = 5
    /\ Len(result.events) = 3
    /\ result.events[2].usage.input_tokens = 100
    /\ result.events[2].usage.output_tokens = 5

\* C17: for adapters A and C a finish-step event returns skip and changes only
\* the running token counters of the context: inputTokens becomes
\* usage.inputTokens when that field is defined and keeps its value when it is
\* not, and likewise outputTokens; every other field of the context is as it
\* was, and a finish-step whose usage fields are undefined does not reset the
\* counts recorded earlier.
C17_FinishStepCounters ==
    adapter \in {"anthropic", "google"} /\ Called /\ chunk.type = "finish-step" =>
        /\ result = Skip
        /\ context =
            [before EXCEPT
                !.inputTokens = IF "inputTokens" \in DOMAIN chunk.usage
                                THEN chunk.usage.inputTokens ELSE @,
                !.outputTokens = IF "outputTokens" \in DOMAIN chunk.usage
                                 THEN chunk.usage.outputTokens ELSE @]
        /\ chunk.usage = EmptyRecord => context = before

\* C17's case: a context of adapter C with counts recorded and text
\* accumulated receives a finish-step whose usage defines nothing
C17_Witness ==
    /\ adapter = "google"
    /\ Called
    /\ chunk.type = "finish-step"
    /\ chunk.usage = EmptyRecord
    /\ before.inputTokens = 10
    /\ before.outputTokens = 5
    /\ before.accumulatedText # <<>>
    /\ context.inputTokens = 10
    /\ context.outputTokens = 5

\* C18 as stated: for adapter A a tool-call event returns in one result
\* message_start if it was not yet emitted, then content_block_start (a
\* tool_use block with the call's id and name and empty input),
\* content_block_delta (an input_json_delta with the full serialized JSON of
\* input) and content_block_stop, the three at the index contentBlockIndex had
\* before the call; contentBlockIndex is one greater after the call; and that
\* index is not the index of a block opened earlier and still open.
C18_ToolCallFreshIndex ==
    adapter = "anthropic" /\ Called /\ chunk.type = "tool-call" =>
        /\ result.type = "events"
        /\ LET events == result.events
               n == Len(events)
               index == before.contentBlockIndex
           IN  /\ n = IF before.messageStarted THEN 3 ELSE 4
               /\ ~before.messageStarted => events[1].type = "message_start"
               /\ events[n - 2] =
                    [type |-> "content_block_start", index |-> index,
                     content_block |->
                        [type |-> "tool_use", id |-> chunk.toolCallId,
                         name |-> chunk.toolName, input |-> <<>>]]
               /\ events[n - 1] =
                    [type |-> "content_block_delta", index |-> index,
                     delta |-> [type |-> "input_json_delta",
                                partial_json |-> JSONStringify(chunk.input)]]
               /\ events[n] = [type |-> "content_block_stop", index |-> index]
               /\ context.contentBlockIndex = index + 1
               /\ upstream.inOrder => PhaseAt(stream.blocks, index) # "open"

\* the chunks of History are strictly sequential spans: a span starts, and a
\* tool-call arrives, only when no span is open, and a delta or an end belongs
\* to the span that is open
Sequential ==
    LET OpenAt(p) ==
            {q \in 1..(p - 1) :
                /\ History[q].type \in StartTypes
                /\ \A r \in (q + 1)..(p - 1) :
                    ~(History[r].type \in EndTypes
                      /\ SpanKey(History[r]) = SpanKey(History[q]))}
    IN  \A p \in 1..Len(History) :
            /\ History[p].type \in StartTypes \cup {"tool-call"} => OpenAt(p) = {}
            /\ History[p].type \in DeltaTypes \cup EndTypes =>
                \E q \in OpenAt(p) : SpanKey(History[q]) = SpanKey(History[p])

\* C19: for adapter A, when the content spans are strictly sequential (every
\* text, reasoning or tool-input span is ended, and every tool-call complete,
\* before the next span starts), the k-th span of the stream, k counted from
\* 0, has its content_block_start, every content_block_delta and its
\* content_block_stop emitted with index k.
C19_SequentialSpans ==
    adapter = "anthropic" /\ Sequential =>
        LET results == IF Called THEN Append(log, result) ELSE log
            Ordinal(p) ==
                Cardinality({q \in 1..p :
                                History[q].type \in StartTypes \cup {"tool-call"}}) - 1
            Expected(c) ==
                CASE c.type \in StartTypes -> {"content_block_start"}
                  [] c.type \in DeltaTypes -> {"content_block_delta"}
                  [] c.type \in EndTypes -> {"content_block_stop"}
                  [] c.type = "tool-call" -> BlockTypes
                  [] OTHER -> {}
        IN  \A p \in 1..Len(History) :
                Expected(History[p]) # {} =>
                    /\ results[p].type = "events"
                    /\ {e.type : e \in {results[p].events[k] :
                                            k \in 1..Len(results[p].events)}}
                            \ {"message_start"} = Expected(History[p])
                    /\ \A k \in 1..Len(results[p].events) :
                            results[p].events[k].type \in BlockTypes =>
                                results[p].events[k].index = Ordinal(p)

\* C19's case: a tool-input span, a complete tool-call and a text span in turn;
\* the text span, the third, has been closed at index 2
C19_Witness ==
    /\ adapter = "anthropic"
    /\ script \in SpanScripts
    /\ Sequential
    /\ Len(log) = Len(script)
    /\ script[2].type = "tool-input-start"
    /\ script[6].type = "tool-call"
    /\ script[Len(script)].type = "text-end"
    /\ log[Len(log)] = Events(<<[type |-> "content_block_stop", index |-> 2]>>)
    /\ log[6].events[1].index = 1

\* C20: for adapter A messageStarted is false in a fresh context and as long
\* as no message_start has been emitted, becomes true in the call that emits
\* message_start and in no other, and is never set back to false by any event;
\* so message_start is emitted at most once over any sequence of events, and a
\* start event on a context already started returns skip and leaves the
\* context as it was.
C20_MessageStartedFlag ==
    adapter = "anthropic" =>
        /\ Seen.messageStarts = 0 => ~context.messageStarted
        /\ Seen.messageStarts <= 1
        /\ Called =>
            /\ before.messageStarted => context.messageStarted
            /\ EmitsMessageStart <=> ~before.messageStarted /\ context.messageStarted
            /\ EmitsMessageStart => stream.messageStarts = 0
            /\ chunk.type = "start" /\ before.messageStarted =>
                    result = Skip /\ context = before
            /\ chunk.type = "start" /\ ~before.messageStarted =>
                    result = Events(<<createMessageStartEvent(before)>>)

\* C20's case: a start event arrives on a context whose message_start was
\* emitted by an earlier call, after blocks have been counted
C20_Witness ==
    /\ adapter = "anthropic"
    /\ Called
    /\ chunk.type = "start"
    /\ before.messageStarted
    /\ before.contentBlockIndex > 0
    /\ stream.messageStarts = 1
    /\ result = Skip
    /\ context.messageStarted

\* C21 as stated: for adapter A a tool-input-delta{id, delta} for a known id,
\* arriving after the id's tool-input-start and before its tool-input-end,
\* emits exactly one content_block_delta with delta unchanged at the index
\* recorded for the id at its tool-input-start, and the toolCallInputs entry of
\* the id is the concatenation of the deltas since that start.
C21_IndexOfStart ==
    adapter = "anthropic" /\ Called /\ chunk.type = "tool-input-delta"
    /\ MapHas(before.toolCallIndices, chunk.id) =>
        LET n == Len(History)
            starts == {i \in 1..(n - 1) :
                        History[i].type = "tool-input-start" /\ History[i].id = chunk.id}
            open == {i \in starts :
                        \A j \in (i + 1)..(n - 1) :
                            ~(History[j].type = "tool-input-end"
                              /\ History[j].id = chunk.id)}
        IN  open # {} =>
                LET last == CHOOSE i \in starts : \A j \in starts : j <= i
                IN  /\ result =
                        Events(<<[type |-> "content_block_delta",
                                  index |-> log[last].events[Len(log[last].events)].index,
                                  delta |-> [type |-> "input_json_delta",
                                             partial_json |-> chunk.delta]]>>)
                    /\ MapGet(context.toolCallInputs, chunk.id) =
                            AllDeltas(SubSeq(History, last + 1, n), chunk.id)

\* C21, amended: for adapter A a tool-input-delta{id, delta} for a known id
\* emits exactly one content_block_delta with delta unchanged at the index the
\* context holds for the id, which is the index of the block opened by the
\* latest tool-input-start or tool-call for the id (a tool-call for the id
\* records its own index over the one of an earlier tool-input-start), whatever
\* contentBlockIndex is now; the toolCallInputs entry of the id becomes the
\* concatenation of the accepted deltas since the id's latest tool-input-start
\* (since its first tool-call when it was never started); contentBlockIndex,
\* toolCallIndices and messageStarted are unchanged.
C21_IndexOfLatestEntry ==
    adapter = "anthropic" /\ Called /\ chunk.type = "tool-input-delta"
    /\ MapHas(before.toolCallIndices, chunk.id) =>
        LET n == Len(History)
            starts == {i \in 1..(n - 1) :
                        History[i].type = "tool-input-start" /\ History[i].id = chunk.id}
            entries == {i \in 1..(n - 1) :
                        /\ History[i].type \in {"tool-input-start", "tool-call"}
                        /\ SpanKey(History[i])[2] = chunk.id}
            last == CHOOSE i \in entries : \A j \in entries : j <= i
            since == IF starts # {}
                     THEN CHOOSE i \in starts : \A j \in starts : j <= i
                     ELSE CHOOSE i \in entries : \A j \in entries : i <= j
        IN  /\ entries # {}
            /\ result =
                Events(<<[type |-> "content_block_delta",
                          index |-> log[last].events[Len(log[last].events)].index,
                          delta |-> [type |-> "input_json_delta",
                                     partial_json |-> chunk.delta]]>>)
            /\ result.events[1].index = MapGet(before.toolCallIndices, chunk.id)
            /\ MapGet(context.toolCallInputs, chunk.id) =
                    AllDeltas(SubSeq(History, since + 1, n), chunk.id)
            /\ context.contentBlockIndex = before.contentBlockIndex
            /\ context.toolCallIndices = before.toolCallIndices
            /\ context.messageStarted = before.messageStarted

\* C21's case: the second delta of a started id arrives after a tool-call has
\* moved contentBlockIndex on; it goes to the index recorded, not to the
\* current one
C21_Witness ==
    /\ adapter = "anthropic"
    /\ Called
    /\ Len(History) = 4
    /\ History[1].type = "tool-input-start"
    /\ History[2].type = "tool-input-delta"
    /\ History[3].type = "tool-call"
    /\ chunk.type = "tool-input-delta"
    /\ result.type = "events"
    /\ result.events[1].index = 0
    /\ before.contentBlockIndex = 1
    /\ MapGet(context.toolCallInputs, chunk.id) = History[2].delta \o chunk.delta

\* C22: for adapter A a tool-input-end{id} for a known id emits exactly one
\* content_block_stop, at the index recorded for that id, and increases
\* contentBlockIndex by exactly one; nothing else in the context changes.
C22_ToolInputEnd ==
    adapter = "anthropic" /\ Called /\ chunk.type = "tool-input-end"
    /\ MapHas(before.toolCallIndices, chunk.id) =>
        /\ result =
            Events(<<[type |-> "content_block_stop",
                      index |-> MapGet(before.toolCallIndices, chunk.id)]>>)
        /\ context = [before EXCEPT !.contentBlockIndex = before.contentBlockIndex + 1]

\* C22's case: the end of a started id arrives after a tool-call has moved
\* contentBlockIndex on, with input text accumulated for the id
C22_Witness ==
    /\ adapter = "anthropic"
    /\ Called
    /\ chunk.type = "tool-input-end"
    /\ MapHas(before.toolCallIndices, chunk.id)
    /\ MapGet(before.toolCallIndices, chunk.id) = 0
    /\ before.contentBlockIndex = 1
    /\ MapHas(before.toolCallInputs, chunk.id)
    /\ MapGet(before.toolCallInputs, chunk.id) # <<>>
    /\ result.events[1].index = 0
    /\ context.contentBlockIndex = 2

\* C23 as stated: in adapter B every chunk emitted before the stream's end
\* carries finish_reason null; a non-null finish_reason appears only on the
\* chunk produced for the stream-ending event, finish.
C23_NullUntilFinish ==
    adapter = "openai" /\ Called /\ result.type = "chunk" =>
        (result.chunk.choices[1].finish_reason # Null <=> chunk.type = "finish")

\* C23, amended: in adapter B the chunks produced for text-start, text-delta,
\* tool-input-start, tool-input-delta and tool-call carry finish_reason null;
\* the chunk produced for a finish-step, the end of a step, and the chunk
\* produced for finish, the end of the stream, each carry the finish_reason
\* mapped from the event's finishReason, which is never null.
C23_NullExceptStepAndFinish ==
    adapter = "openai" /\ Called /\ result.type = "chunk" =>
        /\ chunk.type \in {"finish-step", "finish"} =>
                /\ result.chunk.choices[1].finish_reason = FinishReasonTable[chunk.finishReason]
                /\ result.chunk.choices[1].finish_reason # Null
        /\ chunk.type \notin {"finish-step", "finish"} =>
                /\ chunk.type \in {"text-start", "text-delta", "tool-input-start",
                                   "tool-input-delta", "tool-call"}
                /\ result.chunk.choices[1].finish_reason = Null

\* C23's case: a step ends for length before the stream has ended, on a
\* context that has assigned a tool-call index
C23_Witness ==
    /\ adapter = "openai"
    /\ Called
    /\ chunk.type = "finish-step"
    /\ chunk.finishReason = "length"
    /\ before.nextToolCallIndex > 0
    /\ result.type = "chunk"
    /\ result.chunk.choices[1].finish_reason = "length"

\* C24 as stated: adapter B signals the role only once per stream, on the
\* first content-bearing chunk: over any sequence of events on one context at
\* most one emitted chunk has delta.role set, and no content-bearing chunk (a
\* text or tool-call delta) is emitted before it.
C24_RoleOnce ==
    adapter = "openai" =>
        LET results == IF Called THEN Append(log, result) ELSE log
            chunks == {p \in 1..Len(results) : results[p].type = "chunk"}
            withRole == {p \in chunks : Has(results[p].chunk.choices[1].delta, "role")}
            withContent ==
                {p \in chunks :
                    \/ Has(results[p].chunk.choices[1].delta, "content")
                    \/ Has(results[p].chunk.choices[1].delta, "tool_calls")}
        IN  /\ Cardinality(withRole) <= 1
            /\ \A p \in withContent : \E q \in withRole : q <= p

\* C25: in adapter B finish-step and finish each emit one chunk with an empty
\* delta, the finish_reason mapped from the event, and a usage built from the
\* counts of that event alone: prompt_tokens is inputTokens, or 0 when it is
\* undefined; completion_tokens is outputTokens, or 0 when it is undefined;
\* total_tokens is totalTokens when it is defined and prompt_tokens +
\* completion_tokens when it is not.  Beyond the identifiers of the context
\* nothing of the result depends on an earlier event, and the context is left
\* as it was.
C25_UsageOfTheEvent ==
    adapter = "openai" /\ Called /\ chunk.type \in {"finish-step", "finish"} =>
        LET counts == IF chunk.type = "finish-step" THEN chunk.usage ELSE chunk.totalUsage
            prompt == IF "inputTokens" \in DOMAIN counts THEN counts.inputTokens ELSE 0
            completion == IF "outputTokens" \in DOMAIN counts THEN counts.outputTokens ELSE 0
        IN  /\ result =
                [type |-> "chunk",
                 chunk |->
                    [id |-> before.id,
                     object |-> "chat.completion.chunk",
                     created |-> before.created,
                     model |-> before.model,
                     choices |->
                        <<[index |-> 0,
                           delta |-> EmptyRecord,
                           finish_reason |-> FinishReasonTable[chunk.finishReason],
                           logprobs |-> Null]>>,
                     usage |->
                        [prompt_tokens |-> prompt,
                         completion_tokens |-> completion,
                         total_tokens |->
                            IF "totalTokens" \in DOMAIN counts
                            THEN counts.totalTokens ELSE prompt + completion]]]
            /\ context = before

\* C25's case: a finish-step that defines the total only, on a context that
\* has assigned tool-call indices
C25_Witness ==
    /\ adapter = "openai"
    /\ Called
    /\ chunk.type = "finish-step"
    /\ chunk.usage = [totalTokens |-> 7]
    /\ before.nextToolCallIndex > 0
    /\ result.type = "chunk"
    /\ result.chunk.usage =
            [prompt_tokens |-> 0, completion_tokens |-> 0, total_tokens |-> 7]

\* C26: in adapter B each call emits at most one chunk; a chunk is produced
\* exactly for text-start, text-delta, tool-input-start, tool-input-delta with
\* a known id, tool-call, finish-step and finish; text-end, reasoning-start,
\* reasoning-delta, reasoning-end, tool-input-end, start, start-step and abort
\* yield skip; and every chunk has exactly one choice, with index 0.
C26_OneChunkPerEvent ==
    adapter = "openai" /\ Called =>
        /\ result.type = "chunk" <=>
                \/ chunk.type \in {"text-start", "text-delta", "tool-input-start",
                                   "tool-call", "finish-step", "finish"}
                \/ /\ chunk.type = "tool-input-delta"
                   /\ MapHas(before.toolCallIndices, chunk.id)
        /\ chunk.type \in {"text-end", "reasoning-start", "reasoning-delta",
                           "reasoning-end", "tool-input-end", "start", "start-step",
                           "abort"} => result = Skip
        /\ result.type = "chunk" =>
                /\ DOMAIN result = {"type", "chunk"}
                /\ result.chunk.object = "chat.completion.chunk"
                /\ Len(result.chunk.choices) = 1
                /\ result.chunk.choices[1].index = 0

\* C26's case: a tool-call arrives for an id that has an index already, and a
\* chunk is produced for it
C26_Witness ==
    /\ adapter = "openai"
    /\ Called
    /\ chunk.type = "tool-call"
    /\ MapHas(before.toolCallIndices, chunk.toolCallId)
    /\ before.nextToolCallIndex = 2
    /\ result.type = "chunk"
    /\ Len(result.chunk.choices) = 1

\* C27: in adapter C every emitted snapshot, incremental or final, has a
\* content with role "model" and a non-empty parts list: one text part holding
\* the full accumulatedText if it is non-empty, followed by one function-call
\* part per entry of accumulatedFunctionCalls, in the order of each id's first
\* insertion (a call never moves or removes an id already present, and a new
\* id goes to the end); with no text and no function call the parts list is
\* exactly one empty-text part.
C27_SnapshotParts ==
    adapter = "google" /\ Called =>
        LET calls == context.accumulatedFunctionCalls
            KeysOf(map) == [i \in 1..Len(map) |-> map[i][1]]
            t == IF context.accumulatedText # <<>> THEN 1 ELSE 0
        IN  /\ IsPrefix(KeysOf(before.accumulatedFunctionCalls), KeysOf(calls))
            /\ \A i, j \in 1..Len(calls) : calls[i][1] = calls[j][1] => i = j
            /\ result.type = "response" =>
                    LET content == result.response.candidates[1].content
                        parts == content.parts
                    IN  /\ Len(result.response.candidates) = 1
                        /\ content.role = "model"
                        /\ Len(parts) >= 1
                        /\ t + Len(calls) = 0 => parts = <<[text |-> <<>>]>>
                        /\ t + Len(calls) > 0 => Len(parts) = t + Len(calls)
                        /\ t = 1 => parts[1] = [text |-> context.accumulatedText]
                        /\ \A i \in 1..Len(calls) :
                                /\ DOMAIN parts[t + i] = {"functionCall"}
                                /\ parts[t + i].functionCall.id = calls[i][1]
                                /\ parts[t + i].functionCall.name = calls[i][2].name

\* C27's case: with text accumulated and two ids inserted, a tool-call for the
\* id inserted first gives a snapshot of three parts with that id still first
C27_Witness ==
    /\ adapter = "google"
    /\ Called
    /\ chunk.type = "tool-call"
    /\ Len(before.accumulatedFunctionCalls) = 2
    /\ before.accumulatedFunctionCalls[1][1] = chunk.toolCallId
    /\ context.accumulatedText # <<>>
    /\ result.type = "response"
    /\ Len(result.response.candidates[1].content.parts) = 3
    /\ result.response.candidates[1].content.parts[2].functionCall.id = chunk.toolCallId
    /\ "text" \in DOMAIN result.response.candidates[1].content.parts[1]

\* C28: in adapter C, when the accumulated args text of a function call is
\* empty or is not valid JSON, the snapshot is still returned as a response
\* result and that call's part has args equal to the empty object; the failed
\* parse never makes the result an error and never changes the accumulated
\* args text, which is what the event wrote and nothing else.
C28_UnparsableArgs ==
    adapter = "google" /\ Called =>
        LET was == before.accumulatedFunctionCalls
            calls == context.accumulatedFunctionCalls
            t == IF context.accumulatedText # <<>> THEN 1 ELSE 0
            Unparsable(text) == text = <<>> \/ ~JSONParse(text).ok
            known == chunk.type = "tool-input-delta" /\ MapHas(was, chunk.id)
        IN  /\ chunk.type \in {"text-delta", "tool-input-end", "tool-call", "finish"}
                    \/ known =>
                    /\ result.type = "response"
                    /\ \A i \in 1..Len(calls) :
                            Unparsable(calls[i][2].args) =>
                                result.response.candidates[1].content
                                    .parts[t + i].functionCall.args = <<>>
            /\ known =>
                    /\ Len(calls) = Len(was)
                    /\ \A i \in 1..Len(was) :
                            calls[i] =
                                IF was[i][1] = chunk.id
                                THEN <<was[i][1],
                                       [was[i][2] EXCEPT !.args = @ \o chunk.delta]>>
                                ELSE was[i]
            /\ chunk.type \in {"text-delta", "tool-input-end", "finish"} => calls = was
            /\ chunk.type = "tool-call" =>
                    \A i \in 1..Len(was) :
                        was[i][1] # chunk.toolCallId => calls[i] = was[i]

\* C28's case: a delta leaves one call with the text of an opened object and
\* another call has no text yet; the snapshot has empty args for both
C28_Witness ==
    /\ adapter = "google"
    /\ Called
    /\ chunk.type = "tool-input-delta"
    /\ Len(context.accumulatedFunctionCalls) = 2
    /\ context.accumulatedText = <<>>
    /\ \E i, j \in 1..2 :
            /\ context.accumulatedFunctionCalls[i] =
                    <<chunk.id, [name |-> "get_weather", args |-> <<LB>>]>>
            /\ context.accumulatedFunctionCalls[j][2].args = <<>>
    /\ result.type = "response"
    /\ \A i \in 1..2 :
            result.response.candidates[1].content.parts[i].functionCall.args = <<>>

\* C29: in adapter C a finish event emits a final snapshot built from the
\* accumulated state, with the mapped finishReason, promptTokenCount =
\* totalUsage.inputTokens when defined, else the context's inputTokens,
\* candidatesTokenCount = totalUsage.outputTokens when defined, else the
\* context's outputTokens, and totalTokenCount = totalUsage.totalTokens when
\* defined, else the sum of the two resolved counts.
C29_FinalSnapshot ==
    adapter = "google" /\ Called /\ chunk.type = "finish" =>
        LET counts == chunk.totalUsage
            prompt == IF "inputTokens" \in DOMAIN counts
                      THEN counts.inputTokens ELSE before.inputTokens
            candidates == IF "outputTokens" \in DOMAIN counts
                          THEN counts.outputTokens ELSE before.outputTokens
        IN  /\ context = before
            /\ result =
                    [type |-> "response",
                     response |->
                        [responseId |-> before.responseId,
                         modelVersion |-> before.modelVersion,
                         candidates |->
                            <<[content |-> buildContent(before),
                               finishReason |->
                                    GoogleFinishReasonTable[chunk.finishReason]]>>,
                         usageMetadata |->
                            [promptTokenCount |-> prompt,
                             candidatesTokenCount |-> candidates,
                             totalTokenCount |->
                                IF "totalTokens" \in DOMAIN counts
                                THEN counts.totalTokens ELSE prompt + candidates]]]

\* C29's case: a finish that defines the input count only, after a finish-step
\* recorded an output count and a function call was accumulated
C29_Witness ==
    /\ adapter = "google"
    /\ Called
    /\ chunk.type = "finish"
    /\ chunk.totalUsage = [inputTokens |-> 100]
    /\ before.inputTokens = 10
    /\ before.outputTokens = 5
    /\ Len(before.accumulatedFunctionCalls) = 1
    /\ result.type = "response"
    /\ result.response.candidates[1].finishReason = "STOP"
    /\ result.response.usageMetadata =
            [promptTokenCount |-> 100, candidatesTokenCount |-> 5,
             totalTokenCount |-> 105]

\* C30: in adapter C every snapshot emitted for an event other than finish
\* (text-delta, tool-input-delta, tool-input-end, tool-call) has no finish
\* reason and usage counts equal to the context's running counters at that
\* moment: promptTokenCount = inputTokens, candidatesTokenCount =
\* outputTokens, totalTokenCount = their sum.  The counters start at zero and
\* only a finish-step writes them, each with the count it defines, so they
\* hold what the latest finish-step recorded, or zero.
C30_IncrementalSnapshot ==
    adapter = "google" =>
        /\ \A fresh \in NewContexts("google") :
                fresh.inputTokens = 0 /\ fresh.outputTokens = 0
        /\ Called =>
            /\ context.inputTokens =
                    IF chunk.type = "finish-step" /\ "inputTokens" \in DOMAIN chunk.usage
                    THEN chunk.usage.inputTokens ELSE before.inputTokens
            /\ context.outputTokens =
                    IF chunk.type = "finish-step" /\ "outputTokens" \in DOMAIN chunk.usage
                    THEN chunk.usage.outputTokens ELSE before.outputTokens
            /\ chunk.type \in {"text-delta", "tool-input-end", "tool-call"}
                    \/ /\ chunk.type = "tool-input-delta"
                       /\ MapHas(before.accumulatedFunctionCalls, chunk.id)
                    => result.type = "response"
            /\ result.type = "response" /\ chunk.type # "finish" =>
                    /\ chunk.type \in {"text-delta", "tool-input-delta",
                                       "tool-input-end", "tool-call"}
                    /\ Len(result.response.candidates) = 1
                    /\ result.response.candidates[1].finishReason = Undefined
                    /\ result.response.usageMetadata =
                            [promptTokenCount |-> context.inputTokens,
                             candidatesTokenCount |-> context.outputTokens,
                             totalTokenCount |->
                                context.inputTokens + context.outputTokens]

\* C30's case: a text-delta after a finish-step that defined the input count
\* only; the snapshot reports 10, 0 and 10 and no finish reason
C30_Witness ==
    /\ adapter = "google"
    /\ Called
    /\ chunk.type = "text-delta"
    /\ before.inputTokens = 10
    /\ before.outputTokens = 0
    /\ result.type = "response"
    /\ result.response.candidates[1].finishReason = Undefined
    /\ result.response.usageMetadata =
            [promptTokenCount |-> 10, candidatesTokenCount |-> 0,
             totalTokenCount |-> 10]

\* C31: in adapter C, tool-input-start{id, toolName} returns skip and records
\* id with the tool name and empty args, leaving every other field and every
\* other entry as it was; tool-input-end{id} changes no context field and
\* returns a snapshot whose content is the one built from the context as it
\* was before the call.
C31_StartAndEnd ==
    adapter = "google" /\ Called =>
        LET was == before.accumulatedFunctionCalls
            calls == context.accumulatedFunctionCalls
        IN  /\ chunk.type = "tool-input-start" =>
                /\ result = Skip
                /\ MapHas(calls, chunk.id)
                /\ MapGet(calls, chunk.id) = [name |-> chunk.toolName, args |-> <<>>]
                /\ Len(calls) = Len(was) + (IF MapHas(was, chunk.id) THEN 0 ELSE 1)
                /\ \A i \in 1..Len(was) : was[i][1] # chunk.id => calls[i] = was[i]
                /\ [before EXCEPT !.accumulatedFunctionCalls = calls] = context
            /\ chunk.type = "tool-input-end" =>
                /\ context = before
                /\ result.type = "response"
                /\ result.response.candidates[1].content = buildContent(before)

\* C31's case: a tool-input-start for an id that already has args text; the
\* entry is recorded anew with empty args and nothing is returned
C31_Witness ==
    /\ adapter = "google"
    /\ Called
    /\ chunk.type = "tool-input-start"
    /\ MapHas(before.accumulatedFunctionCalls, chunk.id)
    /\ MapGet(before.accumulatedFunctionCalls, chunk.id).args # <<>>
    /\ MapGet(context.accumulatedFunctionCalls, chunk.id).args = <<>>
    /\ result = Skip

\* C32: in all three adapters the events tool-result, tool-error, start-step,
\* abort, source, file and raw return skip in every reachable context and
\* leave every field of the context unchanged.
C32_InertEvents ==
    Called /\ chunk.type \in {"tool-result", "tool-error", "start-step", "abort",
                               "source", "file", "raw"} =>
        /\ result = [type |-> "skip"]
        /\ context = before

\* C32's case: an abort arrives at an adapter-C context that has accumulated
\* text and a function call
C32_Witness ==
    /\ adapter = "google"
    /\ Called
    /\ chunk.type = "abort"
    /\ before.accumulatedText # <<>>
    /\ before.accumulatedFunctionCalls # <<>>
    /\ result = [type |-> "skip"]
    /\ context = before

\* C33: the identifiers stored at construction (A: id, model; B: id, model,
\* created; C: responseId, modelVersion) are never modified by a call, and
\* every message_start, every chunk and every snapshot emitted from a context
\* carries exactly those values; B's created is fixed at construction (the
\* caller's value, or the clock read once) and is the same on the first and
\* the last chunk of a stream.
C33_Identifiers ==
    LET Names == CASE adapter = "anthropic" -> {"id", "model"}
                   [] adapter = "openai" -> {"id", "model", "created"}
                   [] adapter = "google" -> {"responseId", "modelVersion"}
        Of(r) == [n \in Names |-> r[n]]
        results == IF Called THEN Append(log, result) ELSE log
        Carriers(r) ==
            CASE r.type = "events" ->
                    {r.events[k].message :
                        k \in {j \in 1..Len(r.events) :
                                    r.events[j].type = "message_start"}}
              [] r.type = "chunk" -> {r.chunk}
              [] r.type = "response" -> {r.response}
              [] OTHER -> {}
    IN  /\ Of(context) = Of(before)
        /\ Of(context) \in {Of(fresh) : fresh \in NewContexts(adapter)}
        /\ adapter = "openai" =>
                context.created \in
                    {IF "created" \in DOMAIN options THEN options.created ELSE now :
                        options \in OpenAIOptions, now \in Clock}
        /\ \A i \in 1..Len(results) :
                \A carrier \in Carriers(results[i]) : Of(carrier) = Of(context)

\* C33's case: a context of adapter B constructed without a created value has
\* emitted a first chunk and now a finish chunk, both with the clock's value
C33_Witness ==
    /\ adapter = "openai"
    /\ Called
    /\ chunk.type = "finish"
    /\ context.created \in Clock
    /\ Len(log) >= 3
    /\ \E i \in 1..Len(log) :
            /\ log[i].type = "chunk"
            /\ log[i].chunk.created = context.created
            /\ \A j \in 1..(i - 1) : log[j].type # "chunk"
    /\ result.type = "chunk"
    /\ result.chunk.created = context.created

\* C34: in adapter A, in every reachable state contentBlockIndex equals the
\* number of content_block_stop events emitted so far from the context, and it
\* never decreases: each of text-end, reasoning-end, tool-input-end with a
\* known id and tool-call adds exactly one, and no other event changes it.
C34_StopCount ==
    adapter = "anthropic" =>
        LET results == IF Called THEN Append(log, result) ELSE log
            Stops == {<<i, k>> \in (1..Len(results)) \X (1..5) :
                        /\ results[i].type = "events"
                        /\ k <= Len(results[i].events)
                        /\ results[i].events[k].type = "content_block_stop"}
            closing ==
                \/ chunk.type \in {"text-end", "reasoning-end", "tool-call"}
                \/ /\ chunk.type = "tool-input-end"
                   /\ MapHas(before.toolCallIndices, chunk.id)
        IN  /\ \A i \in 1..Len(results) :
                    results[i].type = "events" => Len(results[i].events) <= 5
            /\ context.contentBlockIndex = Cardinality(Stops)
            /\ context.contentBlockIndex >= before.contentBlockIndex
            /\ Called =>
                    context.contentBlockIndex =
                        before.contentBlockIndex + (IF closing THEN 1 ELSE 0)

\* C34's case: after a text span and a tool-input span, a tool-call makes the
\* third stop and the index becomes 3
C34_Witness ==
    /\ adapter = "anthropic"
    /\ Called
    /\ chunk.type = "tool-call"
    /\ before.contentBlockIndex = 2
    /\ context.contentBlockIndex = 3
    /\ \E i, j \in 1..Len(log) :
            /\ History[i].type = "text-end"
            /\ History[j].type = "tool-input-end"
    /\ result.events[Len(result.events)].type = "content_block_stop"

\* C35: in adapter B, in every reachable state nextToolCallIndex equals the
\* number of entries of toolCallIndices and the map is a bijection from the
\* known ids onto 0 .. nextToolCallIndex - 1; an assigned index is never
\* changed or removed, and a repeated tool-input-start or a tool-call for an
\* id already known reuses its index without advancing the counter.
C35_IndexBijection ==
    adapter = "openai" =>
        LET map == context.toolCallIndices
            was == before.toolCallIndices
            introducing == chunk.type \in {"tool-input-start", "tool-call"}
            id == IF chunk.type = "tool-call" THEN chunk.toolCallId ELSE chunk.id
        IN  /\ context.nextToolCallIndex = Len(map)
            /\ \A i, j \in 1..Len(map) : map[i][1] = map[j][1] => i = j
            /\ \A i, j \in 1..Len(map) : map[i][2] = map[j][2] => i = j
            /\ {map[i][2] : i \in 1..Len(map)} = 0..(context.nextToolCallIndex - 1)
            /\ Called =>
                /\ Len(was) <= Len(map)
                /\ \A i \in 1..Len(was) : map[i] = was[i]
                /\ introducing /\ MapHas(was, id) =>
                        /\ context = before
                        /\ result.type = "chunk"
                        /\ result.chunk.choices[1].delta.tool_calls[1].index =
                                MapGet(was, id)
                /\ introducing /\ ~MapHas(was, id) =>
                        /\ map = Append(was, <<id, before.nextToolCallIndex>>)
                        /\ context.nextToolCallIndex = before.nextToolCallIndex + 1

\* C35's case: with two ids known, a tool-input-start comes again for the id
\* that was given index 0
C35_Witness ==
    /\ adapter = "openai"
    /\ Called
    /\ chunk.type = "tool-input-start"
    /\ before.nextToolCallIndex = 2
    /\ Len(before.toolCallIndices) = 2
    /\ before.toolCallIndices[1] = <<chunk.id, 0>>
    /\ context = before
    /\ result.chunk.choices[1].delta.tool_calls[1].index = 0

----------------------------------------------------------------------------
(* The one-shot converters: the finish reason of a whole response *)

\* anthropic/messages/from-ai.ts
fromAi_convertStopReason(finishReason) ==
    CASE finishReason = "stop" -> "end_turn"
      [] finishReason = "length" -> "max_tokens"
      [] finishReason = "tool-calls" -> "tool_use"
      [] finishReason = "content-filter" -> "refusal"
      [] finishReason \in {"error", "other", "unknown"} -> "end_turn"
      [] OTHER -> "end_turn"

\* a variant that reports a tool call with the label of the older function API
openai_fromAi_convertFinishReason_function(finishReason) ==
    CASE finishReason = "stop" -> "stop"
      [] finishReason = "length" -> "length"
      [] finishReason = "content-filter" -> "content_filter"
      [] finishReason = "tool-calls" -> "function_call"
      [] OTHER -> "stop"

\* openai/chat-completion, the response converter
openai_fromAi_convertFinishReason(finishReason) ==
    CASE finishReason = "stop" -> "stop"
      [] finishReason = "length" -> "length"
      [] finishReason = "content-filter" -> "content_filter"
      [] finishReason = "tool-calls" -> "tool_calls"
      [] finishReason \in {"error", "other", "unknown"} -> "stop"
      [] OTHER -> "stop"

\* google/genai/index.ts
google_fromAi_convertFinishReason(finishReason) ==
    CASE finishReason = "stop" -> "STOP"
      [] finishReason = "length" -> "MAX_TOKENS"
      [] finishReason = "content-filter" -> "SAFETY"
      [] finishReason = "tool-calls" -> "STOP"
      [] finishReason \in {"error", "other", "unknown"} -> "OTHER"
      [] OTHER -> "OTHER"

\* C37: for each vendor the finish-reason mapping of the streaming adapter
\* equals the mapping of the vendor's one-shot response converter for every
\* one of the seven finish reasons (stop, length, tool-calls, content-filter,
\* error, other, unknown): a streamed finish carries the label that a
\* non-streamed response with the same finishReason reports.
C37_SameLabels ==
    LET reasons == {"stop", "length", "tool-calls", "content-filter",
                    "error", "other", "unknown"}
        OneShot(a, f) ==
            CASE a = "anthropic" -> fromAi_convertStopReason(f)
              [] a = "openai" -> openai_fromAi_convertFinishReason(f)
              [] a = "google" -> google_fromAi_convertFinishReason(f)
    IN  /\ \A f \in reasons :
                /\ convertStopReason(f) = fromAi_convertStopReason(f)
                /\ openai_convertFinishReason(f) = openai_fromAi_convertFinishReason(f)
                /\ google_convertFinishReason(f) = google_fromAi_convertFinishReason(f)
        /\ Called /\ chunk.type = "finish" =>
                /\ chunk.finishReason \in reasons
                /\ FinishLabel(adapter, result) = OneShot(adapter, chunk.finishReason)
        /\ Called /\ chunk.type = "finish-step" /\ adapter = "openai" =>
                FinishLabel(adapter, result) = OneShot(adapter, chunk.finishReason)

\* C37's case: adapter B streams a finish with the reason tool-calls and the
\* chunk carries the label of the one-shot converter
C37_Witness ==
    /\ adapter = "openai"
    /\ Called
    /\ chunk.type = "finish"
    /\ chunk.finishReason = "tool-calls"
    /\ before.nextToolCallIndex > 0
    /\ result.chunk.choices[1].finish_reason = "tool_calls"
    /\ openai_fromAi_convertFinishReason("tool-calls") = "tool_calls"

C39_NoTerminalState ==
    adapter = "anthropic" =>
        LET results == IF Called THEN Append(log, result) ELSE log
            Stops == {<<i, k>> \in (1..Len(results)) \X (1..5) :
                        /\ results[i].type = "events"
                        /\ k <= Len(results[i].events)
                        /\ results[i].events[k].type = "message_stop"}
            Finishes == {p \in 1..Len(History) : History[p].type = "finish"}
            kept == SelectSeq([p \in 1..Len(History) |-> p],
                              LAMBDA p : /\ History[p].type # "finish"
                                         /\ results[p].type # "error")
            alone == ResultsAlone("anthropic",
                                  anthropic_createChunkConversionContext(AnthropicOptions),
                                  [j \in 1..Len(kept) |-> History[kept[j]]])
        IN  /\ Len(results) = Len(History)
            /\ Cardinality(Stops) = Cardinality(Finishes)
            /\ \A stop \in Stops :
                    /\ stop[1] \in Finishes
                    /\ stop[2] > 1
                    /\ results[stop[1]].events[stop[2] - 1].type = "message_delta"
            /\ Finishes = {} \/ History[1].type = "start" =>
                    \A j \in 1..Len(kept) : results[kept[j]] = alone[j]

\* C39's case: a finish, then an error, then a text span on the same context:
\* the text-start after them opens block 0 as if nothing had ended
C39_Witness ==
    /\ adapter = "anthropic"
    /\ Called
    /\ Len(History) = 4
    /\ History[2].type = "finish"
    /\ History[3].type = "error"
    /\ chunk.type = "text-start"
    /\ log[2].events[Len(log[2].events)].type = "message_stop"
    /\ log[3].type = "error"
    /\ result.type = "events"
    /\ result.events = <<[type |-> "content_block_start", index |-> 0,
                           content_block |-> [type |-> "text", text |-> <<>>,
                                              citations |-> Null]]>>

\* C40: in adapter A the set of known tool-call ids only grows.  An id
\* entered in toolCallIndices by tool-input-start or tool-call is never
\* removed and keeps answering tool-input-delta and tool-input-end without an
\* "Unknown tool call id" error, also after its tool-input-end; a later
\* tool-input-start or tool-call with the same id overwrites its recorded
\* index with the contentBlockIndex of that moment.
C40_KnownIdsGrow ==
    adapter = "anthropic" =>
        LET results == IF Called THEN Append(log, result) ELSE log
            was == before.toolCallIndices
            map == context.toolCallIndices
            Introduces(c, id) ==
                \/ c.type = "tool-input-start" /\ c.id = id
                \/ c.type = "tool-call" /\ c.toolCallId = id
        IN  /\ \A p \in 1..Len(History) :
                /\ History[p].type \in {"tool-input-delta", "tool-input-end"}
                /\ \E q \in 1..(p - 1) : Introduces(History[q], History[p].id)
                => results[p].type = "events"
            /\ \A p \in 1..Len(History) :
                \A id \in ToolIds : Introduces(History[p], id) => MapHas(map, id)
            /\ Called =>
                /\ \A i \in 1..Len(was) : MapHas(map, was[i][1])
                /\ \A id \in ToolIds :
                        IF Introduces(chunk, id)
                        THEN MapHas(map, id)
                             /\ MapGet(map, id) = before.contentBlockIndex
                        ELSE MapHas(map, id) <=> MapHas(was, id)
                /\ \A i \in 1..Len(was) :
                        ~Introduces(chunk, was[i][1]) => map[i] = was[i]

\* C40's case: the id was started at block 0 and ended, was started again at
\* block 1 and ended again; a delta for it is still answered, at index 1
C40_Witness ==
    /\ adapter = "anthropic"
    /\ Called
    /\ Len(History) = 5
    /\ History[1].type = "tool-input-start"
    /\ History[2].type = "tool-input-end"
    /\ History[3].type = "tool-input-start"
    /\ History[4].type = "tool-input-end"
    /\ chunk.type = "tool-input-delta"
    /\ before.contentBlockIndex = 2
    /\ MapGet(before.toolCallIndices, chunk.id) = 1
    /\ result.type = "events"
    /\ result.events[1].index = 1

====
